---- MODULE Spec2Model ----
(***************************************************************************)
(* The HTTP/1.1 transaction engine of chunky.hpp: the buffered Stream      *)
(* (put-back buffer over a transport), HTTPTransaction (request parsing,   *)
(* length-delimited and chunked request bodies, response framing, finish)  *)
(* and the keep-alive loop of BaseHTTPServer.                              *)
(*                                                                         *)
(* A byte string is a sequence of one-character strings; the grave accent  *)
(* (code 96), which a TLA+ string cannot hold, is written "grave".         *)
(***************************************************************************)
EXTENDS Integers, Sequences, FiniteSets, TLC

\* ------------------------------------------------------------------ text

\* The printable ASCII characters, code 32 (space) to 126 (~), in code order.
Printable == <<" ", "!", "\"", "#", "$", "%", "&", "'", "(", ")", "*", "+", ",", "-", ".", "/", "0", "1", "2", "3", "4", "5", "6", "7", "8", "9", ":", ";", "<", "=", ">", "?", "@", "A", "B", "C", "D", "E", "F", "G", "H", "I", "J", "K", "L", "M", "N", "O", "P", "Q", "R", "S", "T", "U", "V", "W", "X", "Y", "Z", "[", "\\", "]", "^", "_", "grave", "a", "b", "c", "d", "e", "f", "g", "h", "i", "j", "k", "l", "m", "n", "o", "p", "q", "r", "s", "t", "u", "v", "w", "x", "y", "z", "{", "|", "}", "~">>

PrintableCode ==
    " " :> 32 @@ "!" :> 33 @@ "\"" :> 34 @@ "#" :> 35 @@ "$" :> 36 @@ "%" :> 37 @@ "&" :> 38 @@ "'" :> 39 @@
    "(" :> 40 @@ ")" :> 41 @@ "*" :> 42 @@ "+" :> 43 @@ "," :> 44 @@ "-" :> 45 @@ "." :> 46 @@ "/" :> 47 @@
    "0" :> 48 @@ "1" :> 49 @@ "2" :> 50 @@ "3" :> 51 @@ "4" :> 52 @@ "5" :> 53 @@ "6" :> 54 @@ "7" :> 55 @@
    "8" :> 56 @@ "9" :> 57 @@ ":" :> 58 @@ ";" :> 59 @@ "<" :> 60 @@ "=" :> 61 @@ ">" :> 62 @@ "?" :> 63 @@
    "@" :> 64 @@ "A" :> 65 @@ "B" :> 66 @@ "C" :> 67 @@ "D" :> 68 @@ "E" :> 69 @@ "F" :> 70 @@ "G" :> 71 @@
    "H" :> 72 @@ "I" :> 73 @@ "J" :> 74 @@ "K" :> 75 @@ "L" :> 76 @@ "M" :> 77 @@ "N" :> 78 @@ "O" :> 79 @@
    "P" :> 80 @@ "Q" :> 81 @@ "R" :> 82 @@ "S" :> 83 @@ "T" :> 84 @@ "U" :> 85 @@ "V" :> 86 @@ "W" :> 87 @@
    "X" :> 88 @@ "Y" :> 89 @@ "Z" :> 90 @@ "[" :> 91 @@ "\\" :> 92 @@ "]" :> 93 @@ "^" :> 94 @@ "_" :> 95 @@
    "grave" :> 96 @@ "a" :> 97 @@ "b" :> 98 @@ "c" :> 99 @@ "d" :> 100 @@ "e" :> 101 @@ "f" :> 102 @@ "g" :> 103 @@
    "h" :> 104 @@ "i" :> 105 @@ "j" :> 106 @@ "k" :> 107 @@ "l" :> 108 @@ "m" :> 109 @@ "n" :> 110 @@ "o" :> 111 @@
    "p" :> 112 @@ "q" :> 113 @@ "r" :> 114 @@ "s" :> 115 @@ "t" :> 116 @@ "u" :> 117 @@ "v" :> 118 @@ "w" :> 119 @@
    "x" :> 120 @@ "y" :> 121 @@ "z" :> 122 @@ "{" :> 123 @@ "|" :> 124 @@ "}" :> 125 @@ "~" :> 126

\* The character code of a byte.
Code(c) == IF c = "\t" THEN 9 ELSE IF c = "\n" THEN 10 ELSE IF c = "\r" THEN 13
           ELSE PrintableCode[c]

IsDigit(c) == Code(c) >= 48 /\ Code(c) <= 57
IsUpper(c) == Code(c) >= 65 /\ Code(c) <= 90
IsLower(c) == Code(c) >= 97 /\ Code(c) <= 122
IsHexDigit(c) == IsDigit(c) \/ (Code(c) >= 65 /\ Code(c) <= 70) \/ (Code(c) >= 97 /\ Code(c) <= 102)
IsSpace(c) == c \in {" ", "\t", "\n", "\r"}

\* The value of a decimal or hexadecimal digit.
DigitValue(c) == IF IsDigit(c) THEN Code(c) - 48
                 ELSE IF IsLower(c) THEN Code(c) - 87 ELSE Code(c) - 55

\* std::toupper in the "C" locale.
ToUpper(c) == IF IsLower(c) THEN Printable[Code(c) - 32 - 31] ELSE c

Min(S) == CHOOSE x \in S : \A y \in S : x <= y

Smaller(a, b) == IF a < b THEN a ELSE b

\* The element of a one-element set. Only({F(x) : x \in {e}}) is F(e), with e
\* evaluated once whatever F does with it.
Only(S) == CHOOSE x \in S : TRUE

\* The position of the first occurrence of d in s, 0 when there is none.
Find(s, d) ==
    LET I == {i \in 1..(Len(s) - Len(d) + 1) : SubSeq(s, i, i + Len(d) - 1) = d}
    IN  IF I = {} THEN 0 ELSE Min(I)

\* s from position i to its end.
From(s, i) == SubSeq(s, i, Len(s))

crlf == <<"\r", "\n">>
crlf2 == <<"\r", "\n", "\r", "\n">>

\* boost::algorithm::trim_left: drop the leading white space.
RECURSIVE trim_left(_)
trim_left(s) == IF s # <<>> /\ IsSpace(s[1]) THEN trim_left(Tail(s)) ELSE s

\* The width of size_t in the model. TLC's integers are 32 bits wide, so the
\* 64-bit size_t is modelled 30 bits wide: extraction wraps and overflows at
\* SizeModulus as the program does at 2^64.
SizeModulus == 1073741824

\* Accumulate the digits of base `base` at the front of s onto v. Yields
\* <<value, number of digits consumed, overflowed>>.
RECURSIVE ScanDigits(_, _, _, _, _)
ScanDigits(s, base, v, n, over) ==
    IF s # <<>> /\ (IF base = 16 THEN IsHexDigit(s[1]) ELSE IsDigit(s[1]))
    THEN LET d == DigitValue(s[1])
         IN  IF over \/ v > ((SizeModulus - 1 - d) \div base)
             THEN ScanDigits(Tail(s), base, v, n + 1, TRUE)
             ELSE ScanDigits(Tail(s), base, v * base + d, n + 1, FALSE)
    ELSE <<v, n, over>>

\* The optional sign of a number, and with std::hex the optional 0x before a
\* hexadecimal digit, skipped.
SkipSign(t) == IF t # <<>> /\ t[1] \in {"+", "-"} THEN Tail(t) ELSE t

SkipPrefix(u, base) ==
    IF base = 16 /\ Len(u) >= 3 /\ u[1] = "0" /\ u[2] \in {"x", "X"} /\ IsHexDigit(u[3])
    THEN From(u, 3) ELSE u

\* The extraction from t, which begins with no white space and is not empty:
\* no digit fails with 0, a value that does not fit fails with the maximum, a
\* minus sign negates modulo SizeModulus.
ExtractDigits(t, base) ==
    Only({IF r[2] = 0 THEN [ok |-> FALSE, value |-> 0]
          ELSE IF r[3] THEN [ok |-> FALSE, value |-> SizeModulus - 1]
          ELSE [ok |-> TRUE,
                value |-> IF t[1] = "-" THEN (SizeModulus - r[1]) % SizeModulus ELSE r[1]]
          : r \in {ScanDigits(w, base, 0, 0, FALSE) : w \in {SkipPrefix(SkipSign(t), base)}}})

\* `is >> value` (with std::hex when base = 16) into a size_t on a fresh stream
\* over s, started from `old`: skip white space, an optional sign, with std::hex
\* an optional 0x, then the digits; what follows the digits stays unread. A
\* stream that ends in the white space leaves the value as it was.
\* Yields [ok |-> the stream is still good to test, value |-> the size_t after].
ExtractSize(s, base, old) ==
    Only({IF t = <<>> THEN [ok |-> FALSE, value |-> old] ELSE ExtractDigits(t, base)
          : t \in {trim_left(s)}})

\* boost::format("%x"): n in lower-case hexadecimal.
RECURSIVE FormatHex(_)
FormatHex(n) ==
    LET d == n % 16
        c == IF d < 10 THEN Printable[d + 48 - 31] ELSE Printable[d + 87 - 31]
    IN  IF n < 16 THEN <<c>> ELSE Append(FormatHex(n \div 16), c)

\* boost::format("%d"): n in decimal.
RECURSIVE FormatDec(_)
FormatDec(n) ==
    LET c == Printable[(n % 10) + 48 - 31]
    IN  IF n < 10 THEN <<c>> ELSE Append(FormatDec(n \div 10), c)

\* ------------------------------------------------------------ Headers map

\* detail::CaselessCompare: boost::ilexicographical_compare, which compares the
\* upper-cased characters.
RECURSIVE CaselessCompare(_, _)
CaselessCompare(a, b) ==
    IF b = <<>> THEN FALSE
    ELSE IF a = <<>> THEN TRUE
    ELSE IF Code(ToUpper(a[1])) < Code(ToUpper(b[1])) THEN TRUE
    ELSE IF Code(ToUpper(a[1])) > Code(ToUpper(b[1])) THEN FALSE
    ELSE CaselessCompare(Tail(a), Tail(b))

\* Keys compared byte by byte.
SameKeyExact(a, b) == a = b

\* Two keys are the same key of a Headers map.
SameKey(a, b) == ~CaselessCompare(a, b) /\ ~CaselessCompare(b, a)

\* Headers: std::map<std::string, std::string, CaselessCompare>, held as the
\* sequence of its <<key, value>> entries in the map's (iteration) order.
\* Headers::find: the position of key's entry, 0 for end().
HeadersFind(h, key) ==
    LET I == {i \in 1..Len(h) : SameKey(h[i][1], key)}
    IN  IF I = {} THEN 0 ELSE Min(I)

\* Headers::insert of a key the map does not hold.
HeadersInsert(h, key, value) ==
    LET n == Cardinality({i \in 1..Len(h) : CaselessCompare(h[i][1], key)})
    IN  SubSeq(h, 1, n) \o <<(<<key, value>>)>> \o From(h, n + 1)

\* headers[key] = value (response_header(key) = value).
HeadersSet(h, key, value) ==
    LET i == HeadersFind(h, key)
    IN  IF i = 0 THEN HeadersInsert(h, key, value)
        ELSE [h EXCEPT ![i] = <<h[i][1], value>>]

\* Headers::erase(key).
HeadersErase(h, key) ==
    LET i == HeadersFind(h, key)
    IN  IF i = 0 THEN h ELSE SubSeq(h, 1, i - 1) \o From(h, i + 1)

\* request_header(key): the value, or the empty string.
HeadersGet(h, key) ==
    LET i == HeadersFind(h, key) IN IF i = 0 THEN <<>> ELSE h[i][2]

Str_content_length == <<"c", "o", "n", "t", "e", "n", "t", "-", "l", "e", "n", "g", "t", "h">>
Str_transfer_encoding == <<"t", "r", "a", "n", "s", "f", "e", "r", "-", "e", "n", "c", "o", "d", "i", "n", "g">>
Str_Transfer_Encoding == <<"T", "r", "a", "n", "s", "f", "e", "r", "-", "E", "n", "c", "o", "d", "i", "n", "g">>
Str_identity == <<"i", "d", "e", "n", "t", "i", "t", "y">>
Str_chunked == <<"c", "h", "u", "n", "k", "e", "d">>
Str_Connection == <<"C", "o", "n", "n", "e", "c", "t", "i", "o", "n">>
Str_close == <<"c", "l", "o", "s", "e">>
Str_date == <<"d", "a", "t", "e">>
Str_Date == <<"D", "a", "t", "e">>
Str_HEAD == <<"H", "E", "A", "D">>
Str_HTTP11 == <<"H", "T", "T", "P", "/", "1", ".", "1">>

\* ------------------------------------------------- request side, pure part

\* The maximum size of streambuf_ (HTTPTransaction::buffer_size()), configured
\* small so that a head can exceed it.
buffer_size == 72

\* How many bytes past the delimiter one transport read may bring into
\* streambuf_ at most.
MaxOverRead == 6

\* The request side of a transaction with its stream, as the helpers below take
\* and yield it: sb is streambuf_, rb the stream's readBuffer_, tr the bytes the
\* transport will still deliver (end of stream after them), method, version,
\* resource and headers the request fields, bytes and chunks requestBytes_ and
\* requestChunksPending_.
\*
\* sync_load_buffer / async_load_buffer: read_until(*stream(), streambuf_,
\* delimiter). Reads are added to streambuf_ until it holds the delimiter; a read
\* takes from readBuffer_ when it is not empty and from the transport
\* otherwise, and a transport read may deliver any number of the bytes in
\* flight. Yields the set of possible [s, err].
RECURSIVE load_buffer_growing(_, _)
load_buffer_growing(s, delimiter) ==
    LET found == Find(s.sb \o s.tr, delimiter)
        first == found + Len(delimiter) - 1 - Len(s.sb)
    IN  IF Find(s.sb, delimiter) > 0 THEN {[s |-> s, err |-> "ok"]}
        ELSE IF s.rb # <<>> THEN
            load_buffer_growing([s EXCEPT !.sb = s.sb \o s.rb, !.rb = <<>>], delimiter)
        ELSE IF s.tr = <<>> THEN {[s |-> s, err |-> "eof"]}
        ELSE IF found = 0
        THEN {[s |-> [s EXCEPT !.sb = s.sb \o s.tr, !.tr = <<>>], err |-> "eof"]}
        ELSE {[s |-> [s EXCEPT !.sb = s.sb \o SubSeq(s.tr, 1, first),
                               !.tr = From(s.tr, first + 1)],
               err |-> "ok"]}

RECURSIVE load_buffer(_, _)
load_buffer(s, delimiter) ==
    LET space == buffer_size - Len(s.sb)
        n == Smaller(Len(s.rb), space)
        reach == Smaller(Len(s.tr), space)
    IN  IF Find(s.sb, delimiter) > 0 THEN {[s |-> s, err |-> "ok"]}
        ELSE IF space <= 0 THEN {[s |-> s, err |-> "not_found"]}
        ELSE IF s.rb # <<>> THEN
            UNION {load_buffer(t, delimiter)
                   : t \in {[s EXCEPT !.sb = s.sb \o SubSeq(s.rb, 1, n),
                                      !.rb = From(s.rb, n + 1)]}}
        ELSE IF s.tr = <<>> THEN {[s |-> s, err |-> "eof"]}
        ELSE
            \* The delimiter is complete with byte `first` of the transport, when
            \* it is within reach at all.
            UNION {
              IF found = 0 THEN
                {[s |-> [s EXCEPT !.sb = s.sb \o SubSeq(s.tr, 1, reach),
                                  !.tr = From(s.tr, reach + 1)],
                  err |-> IF reach = space THEN "not_found" ELSE "eof"]}
              ELSE
                LET first == found + Len(delimiter) - 1 - Len(s.sb)
                IN  {[s |-> [s EXCEPT !.sb = s.sb \o SubSeq(s.tr, 1, t),
                                      !.tr = From(s.tr, t + 1)],
                      err |-> "ok"] : t \in first..Smaller(reach, first + MaxOverRead)}
              : found \in {Find(s.sb \o SubSeq(s.tr, 1, reach), delimiter)}}

\* get_line: the bytes of streambuf_ up to the first CRLF, and streambuf_ with
\* the line and its CRLF consumed. Called only once the buffer holds a CRLF.
get_line(sb) ==
    LET n == Find(sb, crlf)
    IN  [line |-> SubSeq(sb, 1, n - 1), sb |-> From(sb, n + 2)]

\* A header line added that replaces the value of a key the map holds.
add_header_replacing(headers, line, colon) ==
    HeadersSet(headers, SubSeq(line, 1, colon - 1), trim_left(From(line, colon + 1)))

\* One header line added to requestHeaders_: split at its first colon, the
\* value left-trimmed; a key the map holds gets ", " and the value appended.
add_header(headers, line, colon) ==
    Only({IF i # 0
          THEN [headers EXCEPT ![i] = <<headers[i][1],
                                        headers[i][2] \o <<",", " ">> \o trim_left(From(line, colon + 1))>>]
          ELSE HeadersInsert(headers, SubSeq(line, 1, colon - 1), trim_left(From(line, colon + 1)))
          : i \in {HeadersFind(headers, SubSeq(line, 1, colon - 1))}})

\* read_request_headers: header lines up to the empty line; a line without a
\* colon is an error. Yields [s, err].
RECURSIVE read_request_headers(_)
read_request_headers(s) ==
    Only({IF g.line = <<>> THEN [s |-> [s EXCEPT !.sb = g.sb], err |-> "ok"]
          ELSE IF Find(g.line, <<":">>) = 0
          THEN [s |-> [s EXCEPT !.sb = g.sb], err |-> "invalid_request_header"]
          ELSE Only({read_request_headers(t)
                     : t \in {[s EXCEPT !.sb = g.sb,
                                        !.headers = add_header(s.headers, g.line,
                                                               Find(g.line, <<":">>))]}})
          : g \in {get_line(s.sb)}})

\* The characters of a method token: [-!#$%^&*+._'`|~0-9A-Za-z].
IsTokenChar(c) ==
    \/ c \in {"-", "!", "#", "$", "%", "^", "&", "*", "+", ".", "_", "'", "grave", "|", "~"}
    \/ IsDigit(c) \/ IsUpper(c) \/ IsLower(c)

\* The regular expression HTTP/\d\.\d.
IsVersion(v) ==
    /\ Len(v) = 8
    /\ SubSeq(v, 1, 5) = <<"H", "T", "T", "P", "/">>
    /\ IsDigit(v[6]) /\ v[7] = "." /\ IsDigit(v[8])

\* The regular expression of read_request_line on a line l whose first space
\* is at a and whose next space is at b behind it: a token, a space,
\* non-white-space, a space, HTTP/d.d.
MatchesRequest(l, a, b) ==
    /\ a > 1 /\ b > 1
    /\ \A i \in 1..(a - 1) : IsTokenChar(l[i])
    /\ \A i \in (a + 1)..(a + b - 1) : ~IsSpace(l[i])
    /\ IsVersion(From(l, a + b + 1))

\* read_request_line: the first line must match (method) (resource) (version)
\* as a whole. The three fields are stored before the version is compared
\* with HTTP/1.1. Yields [s, err].
\* The byte with a code: the printable ones and tab, line feed and carriage
\* return as themselves, any other as "other".
Chr(v) ==
    IF v >= 32 /\ v <= 126 THEN Printable[v - 31]
    ELSE IF v = 9 THEN "\t" ELSE IF v = 10 THEN "\n" ELSE IF v = 13 THEN "\r"
    ELSE "other"

\* decode: up to the first "+" or "%" the bytes are kept; "+" becomes a space
\* and "%HH" the byte of that code, and the rest is decoded in turn; a "%"
\* that two hexadecimal digits do not follow ends the decoding, the rest is
\* kept as it is.
RECURSIVE decode(_)
decode(s) ==
    LET I == {i \in 1..Len(s) : s[i] \in {"+", "%"}}
        k == IF I = {} THEN 0 ELSE Min(I)
    IN  IF k = 0 THEN s
        ELSE IF s[k] = "+" THEN SubSeq(s, 1, k - 1) \o <<" ">> \o decode(From(s, k + 1))
        ELSE IF k + 2 <= Len(s) /\ IsHexDigit(s[k + 1]) /\ IsHexDigit(s[k + 2])
        THEN SubSeq(s, 1, k - 1)
             \o <<Chr(16 * DigitValue(s[k + 1]) + DigitValue(s[k + 2]))>>
             \o decode(From(s, k + 3))
        ELSE s

\* requestPath_ as read_request_line leaves it: for a resource that begins
\* with "/" (any such resource matches resourceRegex) the decoded part before
\* the first "?" or "#"; for any other resource it stays empty.
request_path(resource) ==
    LET I == {i \in 1..Len(resource) : resource[i] \in {"?", "#"}}
        k == IF I = {} THEN Len(resource) + 1 ELSE Min(I)
    IN  IF resource = <<>> \/ resource[1] # "/" THEN <<>>
        ELSE decode(SubSeq(resource, 1, k - 1))

read_request_line(s) ==
    Only({
      Only({
        Only({
          IF ~MatchesRequest(g.line, a, b)
          THEN [s |-> [s EXCEPT !.sb = g.sb], err |-> "invalid_request_line"]
          ELSE [s |-> [s EXCEPT !.sb = g.sb,
                                !.method = SubSeq(g.line, 1, a - 1),
                                !.resource = SubSeq(g.line, a + 1, a + b - 1),
                                !.version = From(g.line, a + b + 1)],
                err |-> IF From(g.line, a + b + 1) # Str_HTTP11
                        THEN "unsupported_http_version" ELSE "ok"]
          : b \in {Find(From(g.line, a + 1), <<" ">>)}})
        : a \in {Find(g.line, <<" ">>)}})
      : g \in {get_line(s.sb)}})

\* The end of a chunked body, from the state s in which the line of the last
\* chunk header was consumed: the CRLF just consumed is restored (sungetc
\* twice), the buffer is loaded through the empty line, the restored CRLF is
\* skipped (snextc twice) and the trailers are read as headers.
read_trailers(s) ==
    {IF t.err # "ok" THEN t
     ELSE read_request_headers([t.s EXCEPT !.sb = From(t.s.sb, 3)])
     : t \in load_buffer([s EXCEPT !.chunks = FALSE, !.sb = crlf \o s.sb], crlf2)}

\* read_chunk_header on the line g of a loaded buffer: the hexadecimal chunk
\* length is taken from the line; a length of 0 ends the body.
chunk_header(s, g) ==
    UNION {
      IF ~x.ok THEN {[s |-> [s EXCEPT !.sb = g.sb, !.bytes = x.value],
                      err |-> "invalid_chunk_length"]}
      ELSE IF x.value = 0 THEN read_trailers([s EXCEPT !.sb = g.sb, !.bytes = 0])
      ELSE {[s |-> [s EXCEPT !.sb = g.sb, !.bytes = x.value], err |-> "ok"]}
      : x \in {ExtractSize(g.line, 16, s.bytes)}}

\* read_chunk_header: load through CRLF, then the chunk length and, after the
\* last chunk, the trailers. Yields the set of possible [s, err].
read_chunk_header(s) ==
    IF ~(s.bytes = 0 /\ s.chunks) THEN {[s |-> s, err |-> "assertion_failed"]}
    ELSE UNION {
      IF l.err # "ok" THEN {l}
      ELSE UNION {chunk_header(l.s, g) : g \in {get_line(l.s.sb)}}
      : l \in load_buffer(s, crlf)}

\* read_length: Content-Length, when present, is extracted into requestBytes_
\* first; then a Transfer-Encoding other than "identity" makes the body chunked
\* and the first chunk header is read. Yields the set of possible [s, err].
read_length(s) ==
    UNION {
      UNION {
        IF ~x.ok THEN {[s |-> [s EXCEPT !.bytes = x.value], err |-> "invalid_content_length"]}
        ELSE UNION {
          IF e # 0 /\ s.headers[e][2] # Str_identity
          THEN read_chunk_header([s EXCEPT !.bytes = 0, !.chunks = TRUE])
          ELSE {[s |-> [s EXCEPT !.bytes = x.value], err |-> "ok"]}
          : e \in {HeadersFind(s.headers, Str_transfer_encoding)}}
        : x \in {IF c = 0 THEN [ok |-> TRUE, value |-> s.bytes]
                 ELSE ExtractSize(s.headers[c][2], 10, s.bytes)}}
      : c \in {HeadersFind(s.headers, Str_content_length)}}

\* create: load the head through the empty line, then the request line, the
\* headers and the body framing. Yields the set of possible [s, err].
create(s) ==
    UNION {
      IF l.err # "ok" THEN {l}
      ELSE UNION {
        IF a.err # "ok" THEN {a}
        ELSE UNION {
          IF b.err # "ok" THEN {b} ELSE read_length(b.s)
          : b \in {read_request_headers(a.s)}}
        : a \in {read_request_line(l.s)}}
      : l \in load_buffer(s, crlf2)}

\* read_take as it would be without the bound of requestBytes_: everything
\* streambuf_ holds, up to the buffer, is handed out as body.
read_take_unbounded(s, bufferSize) ==
    LET nBytes == Smaller(bufferSize, Len(s.sb))
    IN  [s |-> [s EXCEPT !.sb = From(s.sb, nBytes + 1),
                         !.bytes = IF s.bytes > nBytes THEN s.bytes - nBytes ELSE 0],
         n |-> nBytes,
         data |-> SubSeq(s.sb, 1, nBytes)]

\* The first part of read_some / async_read_some once the head is parsed: "take
\* data from the streambuf first", at most requestBytes_ and at most the
\* buffer. Yields [s, n, data].
read_take(s, bufferSize) ==
    LET nBytes == IF Len(s.sb) > 0
                  THEN Smaller(bufferSize, Smaller(Len(s.sb), s.bytes)) ELSE 0
    IN  [s |-> [s EXCEPT !.sb = From(s.sb, nBytes + 1), !.bytes = s.bytes - nBytes],
         n |-> nBytes,
         data |-> SubSeq(s.sb, 1, nBytes)]

\* The lambda as it would be if it left the next chunk header to the next
\* read.
read_done_lazy(s, bufferSize, n, data) ==
    {[s |-> s, err |-> IF n = 0 /\ bufferSize > 0 THEN "eof" ELSE "ok",
      n |-> n, data |-> data]}

\* The lambda as it would be if it read the next chunk header for a buffer of
\* no bytes too.
read_done_any_buffer(s, bufferSize, n, data) ==
    IF s.chunks /\ s.bytes = 0 THEN
      UNION {
        IF l.err # "ok" THEN {[s |-> l.s, err |-> l.err, n |-> n, data |-> data]}
        ELSE UNION {
          IF g.line # <<>>
          THEN {[s |-> [l.s EXCEPT !.sb = g.sb], err |-> "invalid_chunk_delimiter",
                 n |-> n, data |-> data]}
          ELSE {[s |-> h.s, err |-> h.err, n |-> n, data |-> data]
                : h \in read_chunk_header([l.s EXCEPT !.sb = g.sb])}
          : g \in {get_line(l.s.sb)}}
        : l \in load_buffer(s, crlf)}
    ELSE {[s |-> s, err |-> IF n = 0 /\ bufferSize > 0 THEN "eof" ELSE "ok",
           n |-> n, data |-> data]}

\* The lambda read_some and async_read_some share, run after the read on the
\* stream went well, in the state s with n bytes, data, to hand out: when a
\* chunk is exhausted its CRLF and the next chunk header are read; a non-empty
\* buffer that got no byte gives eof. Yields the set of possible
\* [s, err, n, data].
read_done(s, bufferSize, n, data) ==
    IF bufferSize > 0 /\ s.chunks /\ s.bytes = 0 THEN
      UNION {
        IF l.err # "ok" THEN {[s |-> l.s, err |-> l.err, n |-> n, data |-> data]}
        ELSE UNION {
          IF g.line # <<>>
          THEN {[s |-> [l.s EXCEPT !.sb = g.sb], err |-> "invalid_chunk_delimiter",
                 n |-> n, data |-> data]}
          ELSE {[s |-> h.s, err |-> h.err, n |-> n, data |-> data]
                : h \in read_chunk_header([l.s EXCEPT !.sb = g.sb])}
          : g \in {get_line(l.s.sb)}}
        : l \in load_buffer(s, crlf)}
    ELSE {[s |-> s, err |-> IF n = 0 /\ bufferSize > 0 THEN "eof" ELSE "ok",
           n |-> n, data |-> data]}

\* The rest of read_some / async_read_some, for a boost::asio::read on the
\* stream that transfers want bytes: it takes from readBuffer_ and then from
\* the transport until the count is reached or the stream ends, and an error
\* of it is handed on with nBytesRead; then the lambda above. Yields the set of
\* possible [s, err, n, data]: n is the byte count handed to the caller, data
\* the bytes behind it.
read_counted(s, bufferSize, nBytesRead, taken, want) ==
    LET got == Smaller(want, Len(s.rb) + Len(s.tr))
        fromRb == Smaller(got, Len(s.rb))
    IN  IF got < want
        THEN {[s |-> [s EXCEPT !.rb = <<>>, !.tr = <<>>], err |-> "eof",
               n |-> nBytesRead, data |-> taken]}
        ELSE UNION {
          read_done(t, bufferSize, nBytesRead + got,
                    taken \o SubSeq(s.rb, 1, fromRb) \o SubSeq(s.tr, 1, got - fromRb))
          : t \in {[s EXCEPT !.rb = From(s.rb, fromRb + 1),
                             !.tr = From(s.tr, got - fromRb + 1),
                             !.bytes = s.bytes - got]}}

\* read_rest as it would be with the read on the stream filling the buffer,
\* without transfer_exactly(requestBytes_).
read_rest_unframed(s, bufferSize, nBytesRead, taken) ==
    read_counted(s, bufferSize, nBytesRead, taken, IF nBytesRead > 0 THEN 0 ELSE bufferSize)

\* The rest of read_some / async_read_some: the read on the stream is given the
\* caller's buffers and transfer_exactly(nBytesRead ? 0 : requestBytes_).
read_rest(s, bufferSize, nBytesRead, taken) ==
    read_counted(s, bufferSize, nBytesRead, taken,
                 IF nBytesRead > 0 THEN 0 ELSE Smaller(bufferSize, s.bytes))

\* read_some(buffers, error) on a transaction: create when no head was parsed
\* yet (requestMethod_ is empty), and on its failure return 0 with the error;
\* then the two parts above. Yields the set of possible [s, err, n, data].
read_some(s, bufferSize) ==
    UNION {
      IF c.err # "ok" THEN {[s |-> c.s, err |-> c.err, n |-> 0, data |-> <<>>]}
      ELSE UNION {read_rest(k.s, bufferSize, k.n, k.data)
                  : k \in {read_take(c.s, bufferSize)}}
      : c \in IF s.method = <<>> THEN create(s) ELSE {[s |-> s, err |-> "ok"]}}

MaxDiscardBufferSize == 65536

\* boost::asio::read(*this, buffer, transfer_exactly(...)) as sync_discard and
\* async_discard use it: read_some on the transaction with what is left of the
\* buffer until the buffer is full or a read fails. Yields the set of possible
\* [s, err].
RECURSIVE read_exactly(_, _)
read_exactly(s, left) ==
    IF left = 0 THEN {[s |-> s, err |-> "ok"]}
    ELSE UNION {
           IF r.err # "ok" THEN {[s |-> r.s, err |-> r.err]}
           ELSE read_exactly(r.s, left - r.n)
           : r \in read_some(s, left)}

\* sync_discard: read and drop request body while requestBytes_ is not 0, at
\* most MaxDiscardBufferSize bytes a round. Yields the set of possible [s, err].
RECURSIVE sync_discard(_)
sync_discard(s) ==
    IF s.bytes = 0 THEN {[s |-> s, err |-> "ok"]}
    ELSE UNION {
           IF r.err # "ok" THEN {r} ELSE sync_discard(r.s)
           : r \in read_exactly(s, Smaller(s.bytes, MaxDiscardBufferSize))}

\* putback_buffer as it would be if it consumed streambuf_ without handing the
\* bytes to Stream::put_back.
putback_buffer_dropping(s) == [s EXCEPT !.sb = <<>>]

\* putback_buffer with Stream::put_back: what streambuf_ holds goes to the
\* front of the stream's readBuffer_, and streambuf_ is emptied.
putback_buffer(s) == [s EXCEPT !.rb = s.sb \o s.rb, !.sb = <<>>]

\* ------------------------------------------------ response side, pure part

\* The reason phrases of write_status; the empty string for any other status.
reasons(status) ==
    CASE
        status = 100 -> <<"C", "o", "n", "t", "i", "n", "u", "e">> []
        status = 101 -> <<"S", "w", "i", "t", "c", "h", "i", "n", "g", " ", "P", "r", "o", "t", "o", "c", "o", "l", "s">> []
        status = 200 -> <<"O", "K">> []
        status = 201 -> <<"C", "r", "e", "a", "t", "e", "d">> []
        status = 202 -> <<"A", "c", "c", "e", "p", "t", "e", "d">> []
        status = 203 -> <<"N", "o", "n", "-", "A", "u", "t", "h", "o", "r", "i", "t", "a", "t", "i", "v", "e", " ", "I", "n", "f", "o", "r", "m", "a", "t", "i", "o", "n">> []
        status = 204 -> <<"N", "o", " ", "C", "o", "n", "t", "e", "n", "t">> []
        status = 205 -> <<"R", "e", "s", "e", "t", " ", "C", "o", "n", "t", "e", "n", "t">> []
        status = 206 -> <<"P", "a", "r", "t", "i", "a", "l", " ", "C", "o", "n", "t", "e", "n", "t">> []
        status = 300 -> <<"M", "u", "l", "t", "i", "p", "l", "e", " ", "C", "h", "o", "i", "c", "e", "s">> []
        status = 301 -> <<"M", "o", "v", "e", "d", " ", "P", "e", "r", "m", "a", "n", "e", "n", "t", "l", "y">> []
        status = 302 -> <<"F", "o", "u", "n", "d">> []
        status = 303 -> <<"S", "e", "e", " ", "O", "t", "h", "e", "r">> []
        status = 304 -> <<"N", "o", "t", " ", "M", "o", "d", "i", "f", "i", "e", "d">> []
        status = 305 -> <<"U", "s", "e", " ", "P", "r", "o", "x", "y">> []
        status = 307 -> <<"T", "e", "m", "p", "o", "r", "a", "r", "y", " ", "R", "e", "d", "i", "r", "e", "c", "t">> []
        status = 400 -> <<"B", "a", "d", " ", "R", "e", "q", "u", "e", "s", "t">> []
        status = 401 -> <<"U", "n", "a", "u", "t", "h", "o", "r", "i", "z", "e", "d">> []
        status = 402 -> <<"P", "a", "y", "m", "e", "n", "t", " ", "R", "e", "q", "u", "i", "r", "e", "d">> []
        status = 403 -> <<"F", "o", "r", "b", "i", "d", "d", "e", "n">> []
        status = 404 -> <<"N", "o", "t", " ", "F", "o", "u", "n", "d">> []
        status = 405 -> <<"M", "e", "t", "h", "o", "d", " ", "N", "o", "t", " ", "A", "l", "l", "o", "w", "e", "d">> []
        status = 406 -> <<"N", "o", "t", " ", "A", "c", "c", "e", "p", "t", "a", "b", "l", "e">> []
        status = 407 -> <<"P", "r", "o", "x", "y", " ", "A", "u", "t", "h", "e", "n", "t", "i", "c", "a", "t", "i", "o", "n", " ", "R", "e", "q", "u", "i", "r", "e", "d">> []
        status = 408 -> <<"R", "e", "q", "u", "e", "s", "t", " ", "T", "i", "m", "e", "o", "u", "t">> []
        status = 409 -> <<"C", "o", "n", "f", "l", "i", "c", "t">> []
        status = 410 -> <<"G", "o", "n", "e">> []
        status = 411 -> <<"L", "e", "n", "g", "t", "h", " ", "R", "e", "q", "u", "i", "r", "e", "d">> []
        status = 412 -> <<"P", "r", "e", "c", "o", "n", "d", "i", "t", "i", "o", "n", " ", "F", "a", "i", "l", "e", "d">> []
        status = 413 -> <<"P", "a", "y", "l", "o", "a", "d", " ", "T", "o", "o", " ", "L", "a", "r", "g", "e">> []
        status = 414 -> <<"U", "R", "I", " ", "T", "o", "o", " ", "L", "o", "n", "g">> []
        status = 415 -> <<"U", "n", "s", "u", "p", "p", "o", "r", "t", "e", "d", " ", "M", "e", "d", "i", "a", " ", "T", "y", "p", "e">> []
        status = 416 -> <<"R", "a", "n", "g", "e", " ", "N", "o", "t", " ", "S", "a", "t", "i", "s", "f", "i", "a", "b", "l", "e">> []
        status = 417 -> <<"E", "x", "p", "e", "c", "t", "a", "t", "i", "o", "n", " ", "F", "a", "i", "l", "e", "d">> []
        status = 426 -> <<"U", "p", "g", "r", "a", "d", "e", " ", "R", "e", "q", "u", "i", "r", "e", "d">> []
        status = 500 -> <<"I", "n", "t", "e", "r", "n", "a", "l", " ", "S", "e", "r", "v", "e", "r", " ", "E", "r", "r", "o", "r">> []
        status = 501 -> <<"N", "o", "t", " ", "I", "m", "p", "l", "e", "m", "e", "n", "t", "e", "d">> []
        status = 502 -> <<"B", "a", "d", " ", "G", "a", "t", "e", "w", "a", "y">> []
        status = 503 -> <<"S", "e", "r", "v", "i", "c", "e", " ", "U", "n", "a", "v", "a", "i", "l", "a", "b", "l", "e">> []
        status = 504 -> <<"G", "a", "t", "e", "w", "a", "y", " ", "T", "i", "m", "e", "o", "u", "t">> []
        status = 505 -> <<"H", "T", "T", "P", " ", "V", "e", "r", "s", "i", "o", "n", " ", "N", "o", "t", " ", "S", "u", "p", "p", "o", "r", "t", "e", "d">> []
        OTHER -> <<>>

\* write_status: "HTTP/1.1 <status> <reason>" and CRLF.
write_status(status) ==
    Str_HTTP11 \o <<" ">> \o FormatDec(status) \o <<" ">> \o reasons(status) \o crlf

\* write_headers: every entry as "<key>: <value>" and CRLF, in the map's order,
\* then an empty line.
RECURSIVE write_headers(_)
write_headers(headers) ==
    IF headers = <<>> THEN crlf
    ELSE headers[1][1] \o <<":", " ">> \o headers[1][2] \o crlf \o write_headers(Tail(headers))

\* What strftime("%a, %d %b %Y %T GMT") makes of the wall clock: the model's
\* clock stands at the epoch.
Now == <<"T", "h", "u", ",", " ", "0", "1", " ", "J", "a", "n", " ", "1", "9", "7", "0", " ", "0", "0", ":", "0", "0", ":", "0", "0", " ", "G", "M", "T">>

\* The response side of a transaction as the helpers below take and yield it:
\* status, headers, trailers, bytes and chunked are responseStatus_,
\* responseHeaders_, responseTrailers_, responseBytes_ and responseChunked_,
\* method is requestMethod_.
\*
\* "Set Date header if not already present."
set_date(headers) ==
    IF HeadersFind(headers, Str_date) = 0 THEN HeadersSet(headers, Str_Date, Now)
    ELSE headers

\* A framing decided without regard to status and method.
set_framing_any_status(w) ==
    IF HeadersFind(w.headers, Str_transfer_encoding) # 0
       /\ HeadersGet(w.headers, Str_transfer_encoding) # Str_identity
    THEN [w EXCEPT !.chunked = TRUE,
                   !.headers = HeadersErase(w.headers, Str_content_length)]
    ELSE IF HeadersFind(w.headers, Str_content_length) = 0
    THEN [w EXCEPT !.chunked = TRUE,
                   !.headers = HeadersSet(w.headers, Str_Transfer_Encoding, Str_chunked)]
    ELSE w

\* A framing that is chunked for a Transfer-Encoding and leaves Content-Length
\* among the headers.
set_framing_keeping_length(w) ==
    IF ~(w.status >= 200 /\ w.status # 204 /\ w.status # 304 /\ w.method # Str_HEAD)
    THEN w
    ELSE IF HeadersFind(w.headers, Str_transfer_encoding) # 0
            /\ HeadersGet(w.headers, Str_transfer_encoding) # Str_identity
    THEN [w EXCEPT !.chunked = TRUE]
    ELSE IF HeadersFind(w.headers, Str_content_length) = 0
    THEN [w EXCEPT !.chunked = TRUE,
                   !.headers = HeadersSet(w.headers, Str_Transfer_Encoding, Str_chunked)]
    ELSE w

\* "Determine whether to use chunked transfer", for a response that may have a
\* body: a Transfer-Encoding other than identity makes it chunked and erases
\* Content-Length; without Content-Length it is chunked and says so.
set_framing(w) ==
    IF ~(w.status >= 200 /\ w.status # 204 /\ w.status # 304 /\ w.method # Str_HEAD)
    THEN w
    ELSE Only({
      IF te # 0 /\ w.headers[te][2] # Str_identity
      THEN [w EXCEPT !.chunked = TRUE, !.headers = HeadersErase(w.headers, Str_content_length)]
      ELSE IF HeadersFind(w.headers, Str_content_length) = 0
      THEN [w EXCEPT !.chunked = TRUE,
                     !.headers = HeadersSet(w.headers, Str_Transfer_Encoding, Str_chunked)]
      ELSE w
      : te \in {HeadersFind(w.headers, Str_transfer_encoding)}})

\* The chunk header of prepare_write_prefix.
chunk_prefix(chunked, nBytes) == IF chunked THEN FormatHex(nBytes) \o crlf ELSE <<>>

\* prepare_write_prefix: while responseBytes_ is 0 the status line and the
\* headers, after the Date header and the framing were settled; then, on a
\* chunked response, the chunk length in hexadecimal and CRLF.
\* Yields [w, prefix].
prepare_write_prefix(w, nBytes) ==
    IF w.bytes # 0 THEN [w |-> w, prefix |-> chunk_prefix(w.chunked, nBytes)]
    ELSE Only({[w |-> w1,
                prefix |-> write_status(w1.status) \o write_headers(w1.headers)
                           \o chunk_prefix(w1.chunked, nBytes)]
               : w1 \in {set_framing(d) : d \in {[w EXCEPT !.headers = set_date(w.headers)]}}})

\* prepare_write_suffix: on a chunked response CRLF after a chunk with data and
\* the trailers with their empty line after an empty one.
prepare_write_suffix(w, nBytes) ==
    IF w.chunked
    THEN IF nBytes # 0 THEN crlf ELSE write_headers(w.trailers)
    ELSE <<>>

\* The buffer sequence write_some and async_write_some hand to the stream for
\* a payload: prefix, payload, suffix. Yields [w, chunk].
write_chunk(w, payload) ==
    Only({[w |-> p.w,
           chunk |-> p.prefix \o payload \o prepare_write_suffix(p.w, Len(payload))]
          : p \in {prepare_write_prefix(w, Len(payload))}})

\* ------------------------------------------------------------------ state

VARIABLES
    \* Stream: the bytes the transport will still deliver (then end of stream)
    \* and the put-back buffer; written is what the current transaction has put
    \* on the transport.
    transport, readBuffer_, written,
    \* HTTPTransaction
    streambuf_, requestMethod_, requestVersion_, requestResource_, requestHeaders_,
    requestBytes_, requestChunksPending_,
    responseStatus_, responseHeaders_, responseTrailers_, responseBytes_, responseChunked_,
    \* BaseHTTPServer::create_transaction: where the current transaction stands
    \* ("posted": create_transaction is due; "parse": the null read is pending;
    \* "failed": the null read failed and its handler returned; "handler": the
    \* path's handler holds the transaction; "finishing": async_finish is under
    \* way; "finished": finish is over; "closed": the transport was dropped) and
    \* the keepalive flag of its deleter.
    phase, keepalive,
    \* The asynchronous operations in flight: the read of the transaction (of
    \* the handler or of async_discard), the writes queued on the stream, and
    \* the state of finish / async_finish.
    readOp, writeOps, fin,
    \* What is observed of a run: which input the connection carries, the
    \* number of transactions constructed on it, the body bytes reads handed
    \* out, the last read's outcome, whether a read failed, the payloads the
    \* handler wrote, the steps of finish in the order taken, and what became
    \* of the previous transaction.
    input, txIndex, delivered, lastRead, readFailed, userWrites, writeLog, finishLog, prior,
    \* BaseHTTPServer: the handlers by path, what dispatch_transaction invoked
    \* for the current transaction, and the acceptor with its accept loop.
    handlers_, dispatched, acceptor

streamVars == <<transport, readBuffer_>>
requestVars == <<streambuf_, requestMethod_, requestVersion_, requestResource_,
                 requestHeaders_, requestBytes_, requestChunksPending_>>
responseVars == <<responseStatus_, responseHeaders_, responseTrailers_,
                  responseBytes_, responseChunked_>>
readObs == <<delivered, lastRead, readFailed>>
writeObs == <<userWrites, writeLog>>
serverVars == <<handlers_, dispatched, acceptor>>
vars == <<transport, readBuffer_, written, streambuf_, requestMethod_, requestVersion_,
          requestResource_, requestHeaders_, requestBytes_, requestChunksPending_,
          responseStatus_, responseHeaders_, responseTrailers_, responseBytes_,
          responseChunked_, phase, keepalive, readOp, writeOps, fin, input, txIndex,
          delivered, lastRead, readFailed, userWrites, writeLog, finishLog, prior,
          handlers_, dispatched, acceptor>>

\* The request side and the stream as one record, and back.
Rd == [sb |-> streambuf_, rb |-> readBuffer_, tr |-> transport,
       method |-> requestMethod_, version |-> requestVersion_,
       resource |-> requestResource_, headers |-> requestHeaders_,
       bytes |-> requestBytes_, chunks |-> requestChunksPending_]

SetRd(s) ==
    /\ streambuf_' = s.sb /\ readBuffer_' = s.rb /\ transport' = s.tr
    /\ requestMethod_' = s.method /\ requestVersion_' = s.version
    /\ requestResource_' = s.resource /\ requestHeaders_' = s.headers
    /\ requestBytes_' = s.bytes /\ requestChunksPending_' = s.chunks

\* The response side as one record, and back.
Wr == [status |-> responseStatus_, headers |-> responseHeaders_,
       trailers |-> responseTrailers_, bytes |-> responseBytes_,
       chunked |-> responseChunked_, method |-> requestMethod_]

SetWr(w) ==
    /\ responseStatus_' = w.status /\ responseHeaders_' = w.headers
    /\ responseTrailers_' = w.trailers /\ responseBytes_' = w.bytes
    /\ responseChunked_' = w.chunked

NoOp == [kind |-> "none"]
NoRead ==
    [size |-> 0, err |-> "none", n |-> 0, before |-> 0, afterFailure |-> FALSE,
     null |-> FALSE]
NoFinish ==
    [mode |-> "none", drain |-> "none", write |-> "none", result |-> "ok", handled |-> 0,
     drainError |-> "ok", writeError |-> "ok"]

\* How many transactions a connection carries, and how many writes a handler
\* issues on one transaction, at most.
MaxTransactions == 2
MaxWrites == 2

\* A read's eof is the end of the body when the body was complete as the read
\* began (nothing remaining, no chunk pending); every other error is a failure
\* of the read.
Failure(err, complete) == err # "ok" /\ ~(err = "eof" /\ complete)

\* HTTPTransaction(stream): the fields as the constructor leaves them.
NewTransaction ==
    /\ streambuf_' = <<>> /\ requestMethod_' = <<>> /\ requestVersion_' = <<>>
    /\ requestResource_' = <<>> /\ requestHeaders_' = <<>>
    /\ requestBytes_' = 0 /\ requestChunksPending_' = FALSE
    /\ responseStatus_' = 0 /\ responseHeaders_' = <<>> /\ responseTrailers_' = <<>>
    /\ responseBytes_' = 0 /\ responseChunked_' = FALSE

\* The state once the transport is accepted and create_transaction is due,
\* for a connection input of Inputs.
\* The handler BaseHTTPServer's constructor registers under the empty path.
DefaultHandlers == [path \in {<<>>} |-> "default_handler"]

\* No handler was invoked.
NotDispatched == "none"

\* set_handler(path, handler) without the removal: an empty handler is stored
\* like any other.
set_handler_storing(handlers, path, handler) ==
    [k \in DOMAIN handlers \cup {path} |-> IF k = path THEN handler ELSE handlers[k]]

\* set_handler(path, handler): handlers_[path] = handler, and for an empty
\* handler (written "") handlers_.erase(path).
set_handler(handlers, path, handler) ==
    IF handler # ""
    THEN [k \in DOMAIN handlers \cup {path} |-> IF k = path THEN handler ELSE handlers[k]]
    ELSE [k \in DOMAIN handlers \ {path} |-> handlers[k]]

\* dispatch_transaction: the handler found for the path, else the one found
\* for the empty path, is invoked. With neither, i is handlers_.end() and
\* i->second(transaction) is undefined: the process may stop ("crash"), no
\* handler may run ("none"), or any handler may. Yields the set of what can
\* be invoked.
dispatch_transaction(handlers, path) ==
    IF path \in DOMAIN handlers THEN {handlers[path]}
    ELSE IF <<>> \in DOMAIN handlers THEN {handlers[<<>>]}
    ELSE {"crash", NotDispatched} \cup {handlers[k] : k \in DOMAIN handlers}

\* A deleter that posts create_transaction whatever keepalive says.
next_transaction_always(keep) == "posted"

\* The deleter of a transaction: with keepalive create_transaction is posted
\* for the transport; without, the last reference to the transport goes with
\* the deleter and ~TCP shuts the socket down and closes it.
next_transaction(keep) == IF keep THEN "posted" ELSE "closed"

InitFieldsOf(Inputs) ==
    /\ input \in Inputs
    /\ transport = input.bytes
    /\ readBuffer_ = <<>> /\ written = <<>>
    /\ streambuf_ = <<>> /\ requestMethod_ = <<>> /\ requestVersion_ = <<>>
    /\ requestResource_ = <<>> /\ requestHeaders_ = <<>>
    /\ requestBytes_ = 0 /\ requestChunksPending_ = FALSE
    /\ responseStatus_ = 0 /\ responseHeaders_ = <<>> /\ responseTrailers_ = <<>>
    /\ responseBytes_ = 0 /\ responseChunked_ = FALSE
    /\ keepalive = TRUE
    /\ readOp = NoOp /\ writeOps = <<>> /\ fin = NoFinish
    /\ txIndex = 0 /\ delivered = <<>> /\ lastRead = NoRead /\ readFailed = FALSE
    /\ userWrites = <<>> /\ writeLog = <<>> /\ finishLog = <<>>
    /\ prior = [headFailed |-> FALSE, readFailed |-> FALSE, finished |-> FALSE,
                keep |-> TRUE]
    /\ handlers_ = DefaultHandlers /\ dispatched = NotDispatched

\* What the accept handler does after an error or a connection, with the
\* return on operation_aborted and on errors of the system category left out.
accept_next_always(error) == "rearm"

\* The end of the accept handler: on operation_aborted and on an error of the
\* system category it returns, otherwise (no error, or an error of another
\* category, "misc") it dispatches accept(acceptor) on the strand.
accept_next(error) ==
    IF error \in {"operation_aborted", "system"} THEN "stopped" ELSE "rearm"

\* The acceptor of a server before listen().
Unbound == [state |-> "unbound", accepted |-> 0, error |-> "ok", cancelled |-> FALSE]

\* The acceptor of a server whose accept loop has accepted the connection and
\* waits for the next.
Accepted == [state |-> "accepting", accepted |-> 1, error |-> "ok", cancelled |-> FALSE]

InitFields(Inputs) == InitFieldsOf({Inputs[i] : i \in 1..Len(Inputs)})

InitWith(Inputs) ==
    /\ InitFields(Inputs)
    /\ phase = "posted" /\ acceptor = Accepted

\* ---------------------------------------------------------------- actions

\* BaseHTTPServer::keep_alive.
keep_alive(status, requestHeaders, responseHeaders) ==
    LET requestConnection == HeadersFind(requestHeaders, Str_Connection)
        responseConnection == HeadersFind(responseHeaders, Str_Connection)
    IN  IF status = 101 THEN FALSE
        ELSE IF requestConnection # 0 /\ requestHeaders[requestConnection][2] = Str_close
        THEN FALSE
        ELSE IF responseConnection # 0 /\ responseHeaders[responseConnection][2] = Str_close
        THEN FALSE
        ELSE TRUE

\* create_transaction: a new transaction with its own keepalive flag, and the
\* null read issued on it.
ConstructTransaction ==
    /\ NewTransaction
    /\ phase' = "parse" /\ keepalive' = TRUE /\ txIndex' = txIndex + 1
    /\ written' = <<>> /\ readOp' = NoOp /\ writeOps' = <<>> /\ fin' = NoFinish
    /\ delivered' = <<>> /\ lastRead' = NoRead /\ readFailed' = FALSE
    /\ userWrites' = <<>> /\ writeLog' = <<>> /\ finishLog' = <<>>
    /\ dispatched' = NotDispatched
    /\ UNCHANGED <<transport, readBuffer_, input, prior, handlers_>>

CreateTransaction ==
    /\ phase = "posted" /\ txIndex < MaxTransactions
    /\ ConstructTransaction
    /\ UNCHANGED acceptor

\* A null read's handler that leaves *keepalive as it was made.
KeepaliveLeftAlone == TRUE

\* What the null read's handler does when the read fails: *keepalive = false.
KeepaliveAfterFailedHead == FALSE

\* The completion of the null read of create_transaction: async_read_some with
\* no buffer parses the head. On an error the handler clears keepalive and
\* returns; otherwise the transaction is dispatched to its handler.
NullReadDone ==
    /\ phase = "parse"
    /\ \E r \in read_some(Rd, 0) :
         /\ SetRd(r.s)
         /\ lastRead' = [size |-> 0, err |-> r.err, n |-> r.n, before |-> 0,
                         afterFailure |-> FALSE, null |-> TRUE]
         /\ readFailed' = (r.err # "ok")
         /\ IF r.err # "ok"
            THEN /\ phase' = "failed" /\ keepalive' = KeepaliveAfterFailedHead
                 /\ UNCHANGED dispatched
            ELSE /\ phase' = "handler" /\ keepalive' = keepalive
                 /\ dispatched' \in dispatch_transaction(handlers_, request_path(r.s.resource))
    /\ UNCHANGED <<written, responseVars, readOp, writeOps, fin, input, txIndex,
                   delivered, writeObs, finishLog, prior, handlers_, acceptor>>

\* A deleter that runs while operations of the transaction are in flight.
ReleasedWithOperations == TRUE

\* The handler can let go of the last reference to the transaction: no
\* operation is in flight, since the completion handler of every operation in
\* flight holds a reference (as the null read's handler in create_transaction
\* and the handlers of default_handler do).
LastReference == readOp = NoOp /\ writeOps = <<>>

\* The transaction's deleter, run when its last reference goes: keepalive is
\* and-ed with keep_alive(), and create_transaction is posted when it holds;
\* otherwise nothing refers to the transport any more and it is closed.
Release ==
    /\ phase \in {"failed", "handler", "finished"}
    /\ LastReference
    /\ LET k == keep_alive(responseStatus_, requestHeaders_, responseHeaders_)
       IN  /\ keepalive' = (keepalive /\ k)
           /\ phase' = next_transaction(keepalive /\ k)
           /\ prior' = [headFailed |-> (phase = "failed"), readFailed |-> readFailed,
                        finished |-> (\/ phase = "finished"
                                      \/ /\ phase = "handler" /\ fin.mode # "none"
                                         /\ responseStatus_ < 200),
                        keep |-> k]
    /\ UNCHANGED <<streamVars, written, requestVars, responseVars, readOp, writeOps,
                   fin, input, txIndex, readObs, writeObs, finishLog>>
    /\ UNCHANGED serverVars

\* headers[key] = value for every <<key, value>> of entries, in order.
RECURSIVE HeadersSetAll(_, _)
HeadersSetAll(h, entries) ==
    IF entries = <<>> THEN h
    ELSE HeadersSetAll(HeadersSet(h, entries[1][1], entries[1][2]), Tail(entries))

\* The handler sets the status and some headers and trailers of the response:
\* at first, and again after an informational response was finished.
SetResponse(status, headers, trailers) ==
    /\ phase = "handler" /\ readOp = NoOp /\ writeOps = <<>>
    /\ responseStatus_ = 0 \/ (responseStatus_ < 200 /\ fin.mode # "none")
    /\ responseStatus_ # status
    /\ responseStatus_' = status
    /\ responseHeaders_' = HeadersSetAll(responseHeaders_, headers)
    /\ responseTrailers_' = HeadersSetAll(responseTrailers_, trailers)
    /\ finishLog' = <<>>
    /\ UNCHANGED <<streamVars, written, requestVars, responseBytes_, responseChunked_,
                   phase, keepalive, readOp, writeOps, fin, input, txIndex, readObs,
                   writeObs, prior>>
    /\ UNCHANGED serverVars

\* The body is complete: nothing remaining and no chunk pending.
BodyComplete == requestBytes_ = 0 /\ ~requestChunksPending_

\* The outcome r of a read of the handler with a buffer of bufferSize, begun
\* with the body complete or not, recorded.
ReadOutcome(r, bufferSize, complete) ==
    /\ SetRd(r.s)
    /\ delivered' = delivered \o SubSeq(r.data, 1, r.n)
    /\ lastRead' = [size |-> bufferSize, err |-> r.err, n |-> r.n,
                    before |-> Len(delivered), afterFailure |-> readFailed,
                    null |-> FALSE]
    /\ readFailed' = (readFailed \/ Failure(r.err, complete))

\* read_some(buffers, error) by the handler, on a transaction whose head the
\* null read has parsed.
ReadSome(bufferSize) ==
    /\ phase = "handler" /\ readOp = NoOp
    /\ \E r \in read_some(Rd, bufferSize) : ReadOutcome(r, bufferSize, BodyComplete)
    /\ UNCHANGED <<written, responseVars, phase, keepalive, readOp, writeOps, fin,
                   input, txIndex, writeObs, finishLog, prior>>
    /\ UNCHANGED serverVars

\* async_read_some(buffers, handler) up to its boost::asio::async_read on the
\* stream: the bytes of streambuf_ are taken at once, the rest is in flight.
IssueRead(kind, bufferSize) ==
    LET k == read_take(Rd, bufferSize)
    IN  /\ SetRd(k.s)
        /\ readOp' = [kind |-> kind, size |-> bufferSize, n |-> k.n, taken |-> k.data,
                      complete |-> BodyComplete]

\* async_read_some by the handler.
AsyncReadSome(bufferSize) ==
    /\ phase = "handler" /\ readOp = NoOp
    /\ IssueRead("user", bufferSize)
    /\ UNCHANGED <<written, responseVars, phase, keepalive, writeOps, fin, input,
                   txIndex, readObs, writeObs, finishLog, prior>>
    /\ UNCHANGED serverVars

\* The completion of the handler's async_read_some.
AsyncReadDone ==
    /\ readOp.kind = "user"
    /\ \E r \in read_rest(Rd, readOp.size, readOp.n, readOp.taken) :
         ReadOutcome(r, readOp.size, readOp.complete)
    /\ readOp' = NoOp
    /\ UNCHANGED <<written, responseVars, phase, keepalive, writeOps, fin, input,
                   txIndex, writeObs, finishLog, prior>>
    /\ UNCHANGED serverVars

\* boost::asio::write / async_write of chunk on the stream, on which the
\* transaction has put out so far: an empty chunk is no operation of the
\* transport; of any other the transport takes all, or what it still has room
\* for before it fails. Yields [out, error].
asio_write(out, chunk) ==
    IF input.writeFails /\ Len(out) + Len(chunk) > input.writeRoom /\ chunk # <<>>
    THEN [out |-> out \o SubSeq(chunk, 1, Smaller(Len(chunk), input.writeRoom - Len(out))),
          error |-> "broken_pipe"]
    ELSE [out |-> out \o chunk, error |-> "ok"]

\* What write_some(buffers, error) makes of the outcome of its
\* boost::asio::write: responseBytes_ += nBytes; return nBytes.
\* Yields [bytes |-> responseBytes_ after, n |-> the count returned].
write_some_report(bytes, nBytes, error) ==
    [bytes |-> bytes + nBytes, n |-> nBytes]

\* What the completion handler of async_write_some makes of the outcome of its
\* boost::asio::async_write: on an error handler(error, 0); otherwise
\* responseBytes_ += nBytes and handler(error, nBytes).
async_write_some_report(bytes, nBytes, error) ==
    IF error # "ok" THEN [bytes |-> bytes, n |-> 0]
    ELSE [bytes |-> bytes + nBytes, n |-> nBytes]

\* write_some(buffers, error) by the handler: prefix, payload and suffix go to
\* the stream in one boost::asio::write, and responseBytes_ grows by the
\* payload.
WriteSome(payload) ==
    /\ phase = "handler" /\ writeOps = <<>> /\ responseStatus_ >= 100
    /\ Len(userWrites) < MaxWrites
    /\ \E c \in {write_chunk(Wr, payload)} :
         \E o \in {asio_write(written, c.chunk)} :
           \E r \in {write_some_report(c.w.bytes, Len(payload), o.error)} :
             /\ written' = o.out
             /\ SetWr([c.w EXCEPT !.bytes = r.bytes])
             /\ writeLog' = Append(writeLog,
                    [mode |-> "sync", id |-> Len(userWrites) + 1, nBytes |-> Len(payload),
                     before |-> c.w.bytes, error |-> o.error, n |-> r.n, after |-> r.bytes,
                     chunk |-> c.chunk])
    /\ userWrites' = Append(userWrites, payload)
    /\ UNCHANGED <<streamVars, requestVars, phase, keepalive, readOp, writeOps, fin,
                   input, txIndex, readObs, finishLog, prior>>
    /\ UNCHANGED serverVars

\* async_write_some(buffers, handler) up to its boost::asio::async_write: the
\* chunk is made from the state as it is now and queued on the stream.
IssueWrite(w, payload, final) ==
    \E c \in {write_chunk(w, payload)} :
        /\ SetWr(c.w)
        /\ writeOps' = Append(writeOps, [chunk |-> c.chunk, whole |-> c.chunk,
                                         nBytes |-> Len(payload), final |-> final,
                                         id |-> IF final THEN 0 ELSE Len(userWrites) + 1])

\* async_write_some by the handler.
AsyncWriteSome(payload) ==
    /\ phase = "handler" /\ responseStatus_ >= 100
    /\ Len(userWrites) < MaxWrites
    /\ IssueWrite(Wr, payload, FALSE)
    /\ userWrites' = Append(userWrites, payload)
    /\ UNCHANGED <<streamVars, written, requestVars, phase, keepalive, readOp, fin,
                   input, txIndex, readObs, writeLog, finishLog, prior>>
    /\ UNCHANGED serverVars

\* How much of a chunk the transport takes in a write_some that takes only a
\* part: half of it, rounded up.
short_write(chunk) == (Len(chunk) + 1) \div 2

\* A step of the boost::asio::async_write at the head of the stream's queue
\* whose Stream::async_write_some takes only a part of what remains: the part
\* is on the transport, and the async_write_some for the rest is issued behind
\* the operations that are queued on the stream already.
AsyncWritePart ==
    /\ writeOps # <<>> /\ ~input.writeFails
    /\ \E op \in {Head(writeOps)} :
         /\ Len(op.chunk) >= 2
         /\ \E n \in {short_write(op.chunk)} :
              /\ written' = written \o SubSeq(op.chunk, 1, n)
              /\ writeOps' = Append(Tail(writeOps), [op EXCEPT !.chunk = From(op.chunk, n + 1)])
    /\ UNCHANGED <<streamVars, requestVars, responseVars, phase, keepalive, readOp, fin,
                   input, txIndex, readObs, writeObs, finishLog, prior>>
    /\ UNCHANGED serverVars

\* A handler of async_finish that runs as soon as the write has completed.
result_released_by_write(drain, write) == write = "done"

\* The last reference to the shared result of async_finish is gone, and its
\* deleter runs the handler of async_finish: the handler of the drain (when
\* there is one) and the handler of the write have both been run and destroyed.
result_released(drain, write) == drain # "pending" /\ write = "done"

\* The completion of the write at the head of the stream's queue: its chunk is
\* on the transport, responseBytes_ grows by the payload and the write's
\* handler runs; the handler of async_finish's write sets *result.
AsyncWriteDone ==
    /\ writeOps # <<>>
    /\ \E op \in {Head(writeOps)} :
         \E o \in {asio_write(written, op.chunk)} :
           \E r \in {async_write_some_report(responseBytes_, op.nBytes, o.error)} :
             LET f == IF op.final
                      THEN [fin EXCEPT !.write = "done", !.result = o.error,
                                       !.writeError = o.error]
                      ELSE fin
                 over == op.final /\ result_released(f.drain, f.write)
             IN  /\ written' = o.out
                 /\ responseBytes_' = r.bytes
                 /\ writeOps' = Tail(writeOps)
                 /\ writeLog' = IF op.final THEN writeLog
                                ELSE Append(writeLog,
                                       [mode |-> "async", id |-> op.id, nBytes |-> op.nBytes,
                                        before |-> responseBytes_, error |-> o.error,
                                        n |-> r.n, after |-> r.bytes, chunk |-> op.whole])
                 /\ fin' = IF over THEN [f EXCEPT !.handled = f.handled + 1] ELSE f
                 /\ finishLog' = IF over THEN Append(finishLog, "handler") ELSE finishLog
                 /\ phase' = IF ~over THEN phase
                             ELSE IF responseStatus_ >= 200 THEN "finished" ELSE "handler"
    /\ UNCHANGED <<streamVars, requestVars, responseStatus_, responseHeaders_,
                   responseTrailers_, responseChunked_, keepalive, readOp, input,
                   txIndex, readObs, userWrites, prior>>
    /\ UNCHANGED serverVars

\* The steps of finish() as they would be with the terminating write first.
finish_steps_write_first(status) ==
    IF status >= 200 THEN <<"write", "drain", "putback", "putback">>
    ELSE <<"write", "putback", "putback">>

\* The steps of finish(), in the order of its statements: with a final status
\* sync_discard, whose handler puts streambuf_ back, then the second put-back
\* and the terminating write; with an informational status the drain is left out.
\* A finish that drains the request whatever the status.
finish_steps_draining(status) == <<"drain", "putback", "putback", "write">>

finish_steps(status) ==
    IF status >= 200 THEN <<"drain", "putback", "putback", "write">>
    ELSE <<"putback", "putback", "write">>

\* One step of finish() from the state f = [s, w, out, log, err] on. Yields the
\* set of possible f after it.
finish_step(step, f) ==
    CASE step = "drain" ->
           {[f EXCEPT !.log = Append(f.log, step), !.s = d.s, !.err = d.err]
            : d \in sync_discard(f.s)}
      [] step = "putback" ->
           {[f EXCEPT !.log = Append(f.log, step), !.s = putback_buffer(f.s)]}
      [] step = "write" ->
           UNION {{[f EXCEPT !.log = Append(f.log, step), !.w = c.w, !.out = o.out,
                             !.err = o.error]
                   : o \in {asio_write(f.out, c.chunk)}}
                  : c \in {write_chunk(f.w, <<>>)}}

\* finish() from the state f on: the steps one after the other; a step that
\* fails throws, and the steps after it are not taken. Yields the set of
\* possible f.
RECURSIVE run_finish(_, _)
run_finish(steps, f) ==
    IF steps = <<>> \/ f.err # "ok" THEN {f}
    ELSE UNION {run_finish(Tail(steps), g) : g \in finish_step(Head(steps), f)}

\* finish and async_finish are called once for a response: an informational
\* response that was finished is not finished again.
MayFinish == responseStatus_ >= 100 /\ (fin.mode = "none" \/ responseStatus_ >= 200)

\* finish() / finish(error) by the handler.
Finish ==
    /\ phase = "handler" /\ readOp = NoOp /\ writeOps = <<>> /\ MayFinish
    /\ \E f \in run_finish(finish_steps(responseStatus_),
                           [s |-> Rd, w |-> Wr, out |-> written, log |-> <<>>, err |-> "ok"]) :
         /\ SetRd(f.s) /\ SetWr(f.w) /\ written' = f.out /\ finishLog' = f.log
         /\ fin' = [mode |-> "sync", drain |-> "none", write |-> "none",
                    result |-> f.err, handled |-> 0,
                    drainError |-> IF f.log # <<>> /\ f.log[Len(f.log)] = "drain"
                                   THEN f.err ELSE "ok",
                    writeError |-> IF f.log # <<>> /\ f.log[Len(f.log)] = "write"
                                   THEN f.err ELSE "ok"]
    /\ phase' = IF responseStatus_ >= 200 THEN "finished" ELSE "handler"
    /\ UNCHANGED <<keepalive, readOp, writeOps, input, txIndex, readObs, writeObs, prior>>
    /\ UNCHANGED serverVars

\* async_discard from the request side s on: nothing remains and its handler
\* runs (done), or a round of boost::asio::async_read on the transaction with a
\* buffer of at most MaxDiscardBufferSize is begun. Yields [done, s, op].
async_discard(s) ==
    LET size == Smaller(s.bytes, MaxDiscardBufferSize)
        k == read_take(s, size)
    IN  IF s.bytes = 0 THEN [done |-> TRUE, s |-> s, op |-> NoOp]
        ELSE [done |-> FALSE, s |-> k.s,
              op |-> [kind |-> "discard", size |-> size, n |-> k.n, taken |-> k.data,
                      complete |-> FALSE]]

\* async_finish(handler) by the handler: with a final status async_discard is
\* begun, whose handler puts streambuf_ back and sets *result; with an
\* informational status streambuf_ is put back at once. Then the terminating
\* write is issued.
AsyncFinish ==
    /\ phase = "handler" /\ readOp = NoOp /\ MayFinish
    /\ LET d == async_discard(Rd)
           final == responseStatus_ >= 200
       IN  /\ SetRd(IF ~final \/ d.done THEN putback_buffer(Rd) ELSE d.s)
           /\ readOp' = IF final THEN d.op ELSE NoOp
           /\ fin' = [mode |-> "async",
                      drain |-> IF ~final THEN "none" ELSE IF d.done THEN "done" ELSE "pending",
                      write |-> "pending", result |-> "ok", handled |-> 0,
                      drainError |-> "ok", writeError |-> "ok"]
           /\ finishLog' = (IF ~final THEN <<"putback">>
                            ELSE IF d.done THEN <<"drain", "putback">> ELSE <<>>)
                           \o <<"write">>
    /\ IssueWrite(Wr, <<>>, TRUE)
    /\ phase' = "finishing"
    /\ UNCHANGED <<written, keepalive, input, txIndex, readObs, writeObs, prior>>
    /\ UNCHANGED serverVars

\* The completion of a read of async_discard: an error ends the drain; a buffer
\* not yet full is read on; a full one brings async_discard again. The drain's
\* handler puts streambuf_ back and sets *result.
AsyncDiscardDone ==
    /\ readOp.kind = "discard"
    /\ \E r \in read_rest(Rd, readOp.size, readOp.n, readOp.taken) :
         LET more == r.err = "ok" /\ r.n < readOp.size
             k == read_take(r.s, readOp.size - r.n)
             d == async_discard(r.s)
             done == r.err # "ok" \/ (~more /\ d.done)
             f == IF done THEN [fin EXCEPT !.drain = "done", !.result = r.err,
                                           !.drainError = r.err]
                  ELSE fin
             over == done /\ result_released(f.drain, f.write)
         IN  /\ SetRd(IF done THEN putback_buffer(r.s) ELSE IF more THEN k.s ELSE d.s)
             /\ readOp' = IF done THEN NoOp
                          ELSE IF more
                          THEN [readOp EXCEPT !.size = readOp.size - r.n, !.n = k.n,
                                              !.taken = k.data]
                          ELSE d.op
             /\ fin' = IF over THEN [f EXCEPT !.handled = f.handled + 1] ELSE f
             /\ finishLog' = finishLog \o (IF done THEN <<"drain", "putback">> ELSE <<>>)
                                       \o (IF over THEN <<"handler">> ELSE <<>>)
             /\ phase' = IF over THEN "finished" ELSE phase
    /\ UNCHANGED <<written, responseVars, keepalive, writeOps, input, txIndex, readObs,
                   writeObs, prior>>
    /\ UNCHANGED serverVars

\* ----------------------------------------------------------------- inputs

Line(s) == s \o crlf

\* A request as a connection carries it: its bytes, the body they encode, and
\* how the body is framed ("none", "length", "chunked") or what is wrong with
\* the request ("bad": the bytes are no well-formed request).
\* GET without a body.
Req_Get ==
    [bytes |->
           Line(<<"G", "E", "T", " ", "/", " ", "H", "T", "T", "P", "/", "1", ".", "1">>)
        \o Line(<<"H", "o", "s", "t", ":", " ", "h">>)
        \o crlf,
     body |-> <<>>, kind |-> "none"]

\* A length-delimited body of 3 bytes.
Req_Length ==
    [bytes |->
           Line(<<"P", "O", "S", "T", " ", "/", "x", " ", "H", "T", "T", "P", "/", "1", ".", "1">>)
        \o Line(<<"C", "o", "n", "t", "e", "n", "t", "-", "L", "e", "n", "g", "t", "h", ":", " ", "3">>)
        \o crlf
        \o <<"a", "b", "c">>,
     body |-> <<"a", "b", "c">>, kind |-> "length"]

\* A chunked body of two chunks.
Req_Chunked ==
    [bytes |->
           Line(<<"P", "O", "S", "T", " ", "/", "x", " ", "H", "T", "T", "P", "/", "1", ".", "1">>)
        \o Line(<<"T", "r", "a", "n", "s", "f", "e", "r", "-", "E", "n", "c", "o", "d", "i", "n", "g", ":", " ", "c", "h", "u", "n", "k", "e", "d">>)
        \o crlf
        \o Line(<<"2">>)
        \o Line(<<"a", "b">>)
        \o Line(<<"1">>)
        \o Line(<<"c">>)
        \o Line(<<"0">>)
        \o crlf,
     body |-> <<"a", "b", "c">>, kind |-> "chunked"]

\* A chunked body with a chunk extension and a trailer.
Req_ChunkedTrailer ==
    [bytes |->
           Line(<<"P", "O", "S", "T", " ", "/", "x", " ", "H", "T", "T", "P", "/", "1", ".", "1">>)
        \o Line(<<"T", "r", "a", "n", "s", "f", "e", "r", "-", "E", "n", "c", "o", "d", "i", "n", "g", ":", " ", "c", "h", "u", "n", "k", "e", "d">>)
        \o crlf
        \o Line(<<"1", ";", "x">>)
        \o Line(<<"a">>)
        \o Line(<<"2">>)
        \o Line(<<"b", "c">>)
        \o Line(<<"0">>)
        \o Line(<<"X", "-", "T", "a", "g", ":", " ", "v">>)
        \o crlf,
     body |-> <<"a", "b", "c">>, kind |-> "chunked"]

\* A chunked body with a trailer whose name, in another case, is that of a
\* header of the head.
Req_ChunkedTrailerMerge ==
    [bytes |->
           Line(<<"P", "O", "S", "T", " ", "/", "x", " ", "H", "T", "T", "P", "/", "1", ".", "1">>)
        \o Line(<<"T", "r", "a", "n", "s", "f", "e", "r", "-", "E", "n", "c", "o", "d", "i", "n", "g", ":", " ", "c", "h", "u", "n", "k", "e", "d">>)
        \o Line(<<"x", "-", "t", "a", "g", ":", " ", "u">>)
        \o crlf
        \o Line(<<"1">>)
        \o Line(<<"a">>)
        \o Line(<<"0">>)
        \o Line(<<"X", "-", "T", "a", "g", ":", "v">>)
        \o Line(<<"X", "-", "E", "n", "d", ":", " ", "w">>)
        \o crlf,
     body |-> <<"a">>, kind |-> "chunked"]

\* A chunked body of one chunk on a request that has a Content-Length too
\* ("overridden"): one that is a number, and one that is none.
Req_ChunkedWithLength ==
    [bytes |->
           Line(<<"P", "O", "S", "T", " ", "/", "x", " ", "H", "T", "T", "P", "/", "1", ".", "1">>)
        \o Line(<<"C", "o", "n", "t", "e", "n", "t", "-", "L", "e", "n", "g", "t", "h", ":", " ", "7">>)
        \o Line(<<"T", "r", "a", "n", "s", "f", "e", "r", "-", "E", "n", "c", "o", "d", "i", "n", "g", ":", " ", "c", "h", "u", "n", "k", "e", "d">>)
        \o crlf
        \o Line(<<"3">>)
        \o Line(<<"a", "b", "c">>)
        \o Line(<<"0">>)
        \o crlf,
     body |-> <<"a", "b", "c">>, kind |-> "overridden"]

Req_ChunkedBadLength ==
    [bytes |->
           Line(<<"P", "O", "S", "T", " ", "/", "x", " ", "H", "T", "T", "P", "/", "1", ".", "1">>)
        \o Line(<<"C", "o", "n", "t", "e", "n", "t", "-", "L", "e", "n", "g", "t", "h", ":", " ", "x">>)
        \o Line(<<"T", "r", "a", "n", "s", "f", "e", "r", "-", "E", "n", "c", "o", "d", "i", "n", "g", ":", " ", "c", "h", "u", "n", "k", "e", "d">>)
        \o crlf
        \o Line(<<"3">>)
        \o Line(<<"a", "b", "c">>)
        \o Line(<<"0">>)
        \o crlf,
     body |-> <<"a", "b", "c">>, kind |-> "overridden"]

\* A length-delimited body the peer ends one byte short.
Req_Truncated ==
    [bytes |->
           Line(<<"P", "O", "S", "T", " ", "/", "x", " ", "H", "T", "T", "P", "/", "1", ".", "1">>)
        \o Line(<<"C", "o", "n", "t", "e", "n", "t", "-", "L", "e", "n", "g", "t", "h", ":", " ", "3">>)
        \o crlf
        \o <<"a", "b">>,
     body |-> <<"a", "b">>, kind |-> "bad"]

\* A chunked body whose second chunk length is no number.
Req_BadChunkLength ==
    [bytes |->
           Line(<<"P", "O", "S", "T", " ", "/", "x", " ", "H", "T", "T", "P", "/", "1", ".", "1">>)
        \o Line(<<"T", "r", "a", "n", "s", "f", "e", "r", "-", "E", "n", "c", "o", "d", "i", "n", "g", ":", " ", "c", "h", "u", "n", "k", "e", "d">>)
        \o crlf
        \o Line(<<"2">>)
        \o Line(<<"a", "b">>)
        \o Line(<<"z", "z">>)
        \o crlf
        \o Line(<<"1">>)
        \o Line(<<"c">>)
        \o Line(<<"0">>)
        \o crlf,
     body |-> <<"a", "b">>, kind |-> "bad"]

\* A chunked body whose chunk is longer than its length says.
Req_BadChunkDelimiter ==
    [bytes |->
           Line(<<"P", "O", "S", "T", " ", "/", "x", " ", "H", "T", "T", "P", "/", "1", ".", "1">>)
        \o Line(<<"T", "r", "a", "n", "s", "f", "e", "r", "-", "E", "n", "c", "o", "d", "i", "n", "g", ":", " ", "c", "h", "u", "n", "k", "e", "d">>)
        \o crlf
        \o Line(<<"1">>)
        \o Line(<<"a", "b">>)
        \o Line(<<"0">>)
        \o crlf,
     body |-> <<"a">>, kind |-> "bad"]

\* HEAD without a body.
Req_Head ==
    [bytes |->
           Line(<<"H", "E", "A", "D", " ", "/", " ", "H", "T", "T", "P", "/", "1", ".", "1">>)
        \o Line(<<"H", "o", "s", "t", ":", " ", "h">>)
        \o crlf,
     body |-> <<>>, kind |-> "none"]

\* A connection input: the first request with what follows it on the transport.
\* The transport takes every byte written to it.
Input(first, rest) ==
    [bytes |-> first.bytes \o rest, body |-> first.body, kind |-> first.kind, rest |-> rest,
     writeFails |-> FALSE, writeRoom |-> 0]

\* A connection input whose transport takes writeRoom bytes of a transaction's
\* writes and fails every write past them (the peer is gone).
InputBroken(first, rest, writeRoom) ==
    [Input(first, rest) EXCEPT !.writeFails = TRUE, !.writeRoom = writeRoom]

\* The inputs of the read path: every framing, followed by a second request.
\* A request line longer than streambuf_ may get.
Req_LongHead ==
    [bytes |->
           Line(<<"G", "E", "T", " ", "/">> \o [i \in 1..buffer_size |-> "a"]
                \o <<" ", "H", "T", "T", "P", "/", "1", ".", "1">>)
        \o crlf,
     body |-> <<>>, kind |-> "badhead"]

\* A chunked body whose first chunk header is longer than streambuf_ may
\* get, and one whose trailers are.
Req_LongChunkHeader ==
    [bytes |->
           Line(<<"P", "O", "S", "T", " ", "/", "x", " ", "H", "T", "T", "P", "/", "1", ".", "1">>)
        \o Line(<<"T", "r", "a", "n", "s", "f", "e", "r", "-", "E", "n", "c", "o", "d", "i", "n", "g", ":", " ", "c", "h", "u", "n", "k", "e", "d">>)
        \o crlf
        \o Line(<<"1", ";">> \o [i \in 1..buffer_size |-> "x"])
        \o Line(<<"a">>)
        \o Line(<<"0">>)
        \o crlf,
     body |-> <<>>, kind |-> "long"]

Req_LongTrailers ==
    [bytes |->
           Line(<<"P", "O", "S", "T", " ", "/", "x", " ", "H", "T", "T", "P", "/", "1", ".", "1">>)
        \o Line(<<"T", "r", "a", "n", "s", "f", "e", "r", "-", "E", "n", "c", "o", "d", "i", "n", "g", ":", " ", "c", "h", "u", "n", "k", "e", "d">>)
        \o crlf
        \o Line(<<"1">>)
        \o Line(<<"a">>)
        \o Line(<<"0">>)
        \o Line(<<"X", "-", "T", "a", "g", ":", " ">> \o [i \in 1..buffer_size |-> "v"])
        \o crlf,
     body |-> <<"a">>, kind |-> "long"]

ReadInputs ==
    <<Input(Req_Get, Req_Get.bytes),
      Input(Req_LongHead, <<>>),
      Input(Req_LongChunkHeader, <<>>),
      Input(Req_LongTrailers, <<>>),
      Input(Req_Length, Req_Get.bytes),
      Input(Req_Chunked, Req_Get.bytes),
      Input(Req_ChunkedTrailer, Req_Get.bytes),
      Input(Req_ChunkedTrailerMerge, Req_Get.bytes),
      Input(Req_ChunkedWithLength, Req_Get.bytes),
      Input(Req_ChunkedBadLength, Req_Get.bytes),
      Input(Req_Truncated, <<>>),
      Input(Req_BadChunkLength, Req_Get.bytes),
      Input(Req_BadChunkDelimiter, Req_Get.bytes)>>

\* The largest buffer a handler reads with.
MaxBuffer == 3

\* a is a prefix of b.
IsPrefix(a, b) == Len(a) <= Len(b) /\ a = SubSeq(b, 1, Len(a))

\* ----------------------------------------------------------- specifications

\* The read path: the head is parsed and the handler reads the body, with
\* read_some and async_read_some, buffers of every size up to MaxBuffer.
InitRead == InitWith(ReadInputs)

NextRead ==
    \/ CreateTransaction
    \/ NullReadDone
    \/ \E n \in 0..MaxBuffer : ReadSome(n)
    \/ \E n \in 0..MaxBuffer : AsyncReadSome(n)
    \/ AsyncReadDone

SpecRead == InitRead /\ [][NextRead]_vars

\* Finishing: the handler reads all, part or none of the body, sets a final
\* status, or an informational one first, and finishes with finish or
\* async_finish.
FinishInputs ==
    <<Input(Req_Get, Req_Get.bytes),
      Input(Req_Length, Req_Get.bytes),
      Input(Req_Chunked, Req_Get.bytes),
      Input(Req_ChunkedTrailer, Req_Get.bytes),
      Input(Req_Truncated, <<>>),
      Input(Req_BadChunkLength, Req_Get.bytes),
      InputBroken(Req_Length, Req_Get.bytes, 0),
      InputBroken(Req_Truncated, <<>>, 0)>>

InitFinish == InitWith(FinishInputs)

NextFinish ==
    \/ CreateTransaction
    \/ NullReadDone
    \/ \E n \in 1..MaxBuffer : ReadSome(n)
    \/ \E status \in {100, 200} : SetResponse(status, <<>>, <<>>)
    \/ Finish
    \/ AsyncFinish
    \/ AsyncDiscardDone
    \/ AsyncWriteDone

SpecFinish == InitFinish /\ [][NextFinish]_vars

\* Header and trailer values a handler sets.
Str_Content_Length == <<"C", "o", "n", "t", "e", "n", "t", "-", "L", "e", "n", "g", "t", "h">>
Str_X_Tag == <<"X", "-", "T", "a", "g">>

\* The response headers a handler chooses between: none, a Content-Length, a
\* Transfer-Encoding.
WriteHeaders ==
    {<<>>,
     <<(<<Str_Content_Length, <<"2">>>>)>>,
     <<(<<Str_Transfer_Encoding, Str_chunked>>)>>,
     <<(<<Str_Content_Length, <<"2">>>>), (<<Str_Transfer_Encoding, Str_chunked>>)>>,
     <<(<<Str_Content_Length, <<"2">>>>), (<<Str_Transfer_Encoding, Str_identity>>)>>,
     <<(<<Str_Transfer_Encoding, Str_identity>>)>>}

WriteTrailers == {<<>>, <<(<<Str_X_Tag, <<"v">>>>)>>}

\* The payloads a handler writes: of every length up to MaxPayload.
MaxPayload == 2
Payloads == {SubSeq(<<"a", "b", "c", "d">>, 1, n) : n \in 0..MaxPayload}

\* The bytes a transport that fails takes before it does: a part of the head.
WriteRoom == 20

\* Writing: on a request without a body the handler sets a final status with
\* headers and trailers, writes with write_some and async_write_some, and
\* finishes with finish or async_finish.
WriteInputs ==
    <<Input(Req_Get, <<>>), Input(Req_Head, <<>>),
      InputBroken(Req_Get, <<>>, 0), InputBroken(Req_Get, <<>>, WriteRoom)>>

InitWrite == InitWith(WriteInputs)

NextWrite ==
    \/ CreateTransaction
    \/ NullReadDone
    \/ \E status \in {200, 204}, headers \in WriteHeaders, trailers \in WriteTrailers :
         SetResponse(status, headers, trailers)
    \/ \E payload \in Payloads : WriteSome(payload)
    \/ \E payload \in Payloads : AsyncWriteSome(payload)
    \/ AsyncWriteDone
    \/ Finish
    \/ AsyncFinish

SpecWrite == InitWrite /\ [][NextWrite]_vars

\* GET with Connection: close, and with Connection: Close.
Req_Close ==
    [bytes |->
           Line(<<"G", "E", "T", " ", "/", " ", "H", "T", "T", "P", "/", "1", ".", "1">>)
        \o Line(Str_Connection \o <<":", " ">> \o Str_close)
        \o crlf,
     body |-> <<>>, kind |-> "none"]

Str_Close == <<"C", "l", "o", "s", "e">>

Req_CloseCapital ==
    [bytes |->
           Line(<<"G", "E", "T", " ", "/", " ", "H", "T", "T", "P", "/", "1", ".", "1">>)
        \o Line(Str_Connection \o <<":", " ">> \o Str_Close)
        \o crlf,
     body |-> <<>>, kind |-> "none"]

\* Heads that do not parse ("badhead"): an HTTP/1.0 request, a request line
\* with two spaces, a header line without a colon, a Content-Length that is no
\* number, a head longer than buffer_size, and a head the peer ends within.
Req_OldVersion ==
    [bytes |->
           Line(<<"G", "E", "T", " ", "/", " ", "H", "T", "T", "P", "/", "1", ".", "0">>)
        \o Line(<<"H", "o", "s", "t", ":", " ", "h">>)
        \o crlf,
     body |-> <<>>, kind |-> "badhead"]

Req_BadRequestLine ==
    [bytes |->
           Line(<<"G", "E", "T", " ", " ", "/", " ", "H", "T", "T", "P", "/", "1", ".", "1">>)
        \o Line(<<"H", "o", "s", "t", ":", " ", "h">>)
        \o crlf,
     body |-> <<>>, kind |-> "badhead"]

Req_BadHeader ==
    [bytes |->
           Line(<<"G", "E", "T", " ", "/", " ", "H", "T", "T", "P", "/", "1", ".", "1">>)
        \o Line(<<"H", "o", "s", "t", " ", "h">>)
        \o crlf,
     body |-> <<>>, kind |-> "badhead"]

Req_BadLength ==
    [bytes |->
           Line(<<"P", "O", "S", "T", " ", "/", "x", " ", "H", "T", "T", "P", "/", "1", ".", "1">>)
        \o Line(<<"C", "o", "n", "t", "e", "n", "t", "-", "L", "e", "n", "g", "t", "h", ":", " ", "x">>)
        \o crlf,
     body |-> <<>>, kind |-> "badhead"]

Req_CutHead ==
    [bytes |-> <<"G", "E", "T", " ", "/", " ", "H", "T", "T">>,
     body |-> <<>>, kind |-> "badhead"]

\* The connections of the server: requests with and without a Connection
\* header, with a body that is read well or fails, and heads that do not
\* parse; each but the ones the peer cuts followed by a second request.
\* A request whose method is no method of HTTP.
Req_UnknownMethod ==
    [bytes |->
           Line(<<"F", "O", "O", " ", "/", " ", "H", "T", "T", "P", "/", "1", ".", "1">>)
        \o Line(<<"H", "o", "s", "t", ":", " ", "h">>)
        \o crlf,
     body |-> <<>>, kind |-> "unknown_method"]

ServerInputs ==
    <<Input(Req_Get, Req_Get.bytes),
      Input(Req_UnknownMethod, <<>>),
      Input(Req_Close, Req_Get.bytes),
      Input(Req_CloseCapital, Req_Get.bytes),
      Input(Req_Length, Req_Get.bytes),
      Input(Req_Truncated, <<>>),
      Input(Req_BadChunkLength, Req_Get.bytes),
      Input(Req_BadChunkDelimiter, Req_Get.bytes),
      Input(Req_OldVersion, Req_Get.bytes),
      Input(Req_BadRequestLine, Req_Get.bytes),
      Input(Req_BadHeader, Req_Get.bytes),
      Input(Req_BadLength, Req_Get.bytes),
      Input(Req_LongHead, Req_Get.bytes),
      Input(Req_CutHead, <<>>)>>

\* The Connection headers a handler chooses between for its response.
ServerHeaders ==
    {<<>>,
     <<(<<Str_Connection, Str_close>>)>>,
     <<(<<Str_Connection, Str_Close>>)>>}

\* The server: create_transaction parses a head; on success the handler reads
\* from the body, sets a status (200, or 101 to switch protocols) and a
\* Connection header, finishes, and lets go of the transaction, whose deleter
\* decides on the next transaction.
Init == InitWith(ServerInputs)

Next ==
    \/ CreateTransaction
    \/ NullReadDone
    \/ \E n \in 1..MaxBuffer : ReadSome(n)
    \/ \E status \in {101, 200}, headers \in ServerHeaders : SetResponse(status, headers, <<>>)
    \/ Finish
    \/ Release

Spec == Init /\ [][Next]_vars

\* Requests one after the other on a connection whose handler works with the
\* asynchronous operations: it sets a final status, writes with
\* async_write_some, finishes with async_finish and lets go of the transaction.
PipelineInputs ==
    <<Input(Req_Get, Req_Get.bytes),
      Input(Req_Length, Req_Get.bytes),
      Input(Req_Chunked, Req_Length.bytes)>>

InitPipeline == InitWith(PipelineInputs)

NextPipeline ==
    \/ CreateTransaction
    \/ NullReadDone
    \/ SetResponse(200, <<>>, <<>>)
    \/ \E payload \in Payloads : AsyncWriteSome(payload)
    \/ AsyncWriteDone
    \/ AsyncFinish
    \/ AsyncDiscardDone
    \/ Release

SpecPipeline == InitPipeline /\ [][NextPipeline]_vars

\* Writes on the wire: the handler sets a final status and issues
\* async_write_some one after the other without waiting; the transport takes a
\* chunk whole or in parts.
InitWire == InitWith(<<Input(Req_Get, <<>>)>>)

NextWire ==
    \/ CreateTransaction
    \/ NullReadDone
    \/ \E headers \in WriteHeaders : SetResponse(200, headers, <<>>)
    \/ \E payload \in Payloads : AsyncWriteSome(payload)
    \/ AsyncWritePart
    \/ AsyncWriteDone

SpecWire == InitWire /\ [][NextWire]_vars

\* ------------------------------------------------------ claims, read path

\* C2: on a request with Content-Length: N and no chunked transfer-encoding,
\* whatever the buffer sizes and however much of the body was over-read with
\* the head, the reads hand out the N body bytes in order and nothing behind
\* them: what was delivered is always a prefix of the body, a non-empty read
\* begun before the end delivers at least one byte without an error, and a
\* non-empty read begun after N bytes returns eof with 0 bytes.
C2_LengthBodyDelivered ==
    input.kind = "length" =>
        /\ IsPrefix(delivered, input.body)
        /\ lastRead.size > 0 /\ lastRead.before < Len(input.body)
              => lastRead.err = "ok" /\ lastRead.n > 0
        /\ lastRead.size > 0 /\ lastRead.before = Len(input.body)
              => lastRead.err = "eof" /\ lastRead.n = 0

\* The whole length-delimited body was delivered, the next request is still
\* unread behind it, and the read after the last byte has returned eof.
C2_Witness ==
    /\ input.kind = "length" /\ delivered = input.body /\ input.rest # <<>>
    /\ lastRead.size > 0 /\ lastRead.before = Len(input.body) /\ lastRead.err = "eof"

\* C3: on a well-formed chunked request body, whatever the buffer sizes, the
\* bytes the reads hand out are the chunk data in wire order and nothing else
\* (no chunk-size line, chunk CRLF or trailer byte): what was delivered is
\* always a prefix of the chunk data, a non-empty read begun before the end
\* delivers at least one byte without an error, and a non-empty read begun
\* after the last data byte returns eof with 0 bytes.
C3_ChunkedBodyDelivered ==
    input.kind = "chunked" =>
        /\ IsPrefix(delivered, input.body)
        /\ lastRead.size > 0 /\ lastRead.before < Len(input.body)
              => lastRead.err = "ok" /\ lastRead.n > 0
        /\ lastRead.size > 0 /\ lastRead.before = Len(input.body)
              => lastRead.err = "eof" /\ lastRead.n = 0

\* The data of all chunks was delivered by reads that crossed a chunk boundary
\* (the body has chunks smaller than MaxBuffer), and the read after the last
\* data byte has returned eof.
C3_Witness ==
    /\ input.kind = "chunked" /\ delivered = input.body
    /\ requestHeaders_ # <<>> /\ ~requestChunksPending_
    /\ lastRead.size > 0 /\ lastRead.before = Len(input.body) /\ lastRead.err = "eof"

\* C9: once a read on a transaction has failed, every later read on it
\* returns an error.
C9_ReadErrorsPermanent ==
    lastRead.afterFailure => lastRead.err # "ok"

\* ---------------------------------------------------------- claims, finish

\* The finish of the response is over: finish() returned or threw, or the
\* handler of async_finish ran.
FinishOver == phase = "finished"

\* The entries of finishLog up to, not including, position i.
Before(i) == {finishLog[j] : j \in 1..(i - 1)}

\* C4: once finish() or async_finish() is over without an error on a
\* transaction with a final status and a well-formed request, whatever of the
\* body the handler had read, requestBytes_ is 0, no chunk is pending,
\* streambuf_ is empty, and readBuffer_ followed by the transport is exactly
\* what the connection carries behind the request.
C4_FinishLeavesNextRequest ==
    (/\ FinishOver /\ fin.result = "ok" /\ responseStatus_ >= 200
     /\ input.kind \in {"none", "length", "chunked"})
    => /\ requestBytes_ = 0 /\ ~requestChunksPending_
       /\ streambuf_ = <<>>
       /\ readBuffer_ \o transport = input.rest

\* A chunked request of which the handler read a part only was finished,
\* bytes of the next request had been over-read and were put back.
C4_Witness ==
    /\ FinishOver /\ fin.result = "ok" /\ responseStatus_ >= 200
    /\ input.kind = "chunked" /\ delivered # <<>> /\ delivered # input.body
    /\ readBuffer_ # <<>> /\ readBuffer_ \o transport = input.rest

\* C10 as claimed: with a final status, in finish and in async_finish, the
\* terminating write is issued only after the drain is over and streambuf_ was
\* put back.
C10_WriteAfterDrain ==
    responseStatus_ >= 200 =>
        \A i \in 1..Len(finishLog) :
            finishLog[i] = "write" => {"drain", "putback"} \subseteq Before(i)

\* C10 as the code has it: with a final status streambuf_ is put back only
\* after the drain is over, and the handler of async_finish runs only after
\* the drain, the put-back and the write; finish() issues the terminating
\* write after the drain and the put-back, async_finish issues it at once,
\* while the drain may still be under way.
C10_FinishOrder ==
    responseStatus_ >= 200 =>
        \A i \in 1..Len(finishLog) :
            /\ finishLog[i] = "putback" => "drain" \in Before(i)
            /\ finishLog[i] = "handler" => {"drain", "putback", "write"} \subseteq Before(i)
            /\ (fin.mode = "sync" /\ finishLog[i] = "write")
                  => {"drain", "putback"} \subseteq Before(i)

\* finish() is over on a length-delimited request of whose body the handler
\* had read nothing: the drain discarded the body, then came the put-backs and
\* the write.
C10_Witness ==
    /\ FinishOver /\ fin.mode = "sync" /\ fin.result = "ok" /\ responseStatus_ >= 200
    /\ input.kind = "length" /\ delivered = <<>>
    /\ finishLog = <<"drain", "putback", "putback", "write">>

\* ----------------------------------------------------------- claims, write

\* How often d occurs in s.
Count(s, d) == Cardinality({i \in 1..(Len(s) - Len(d) + 1) : SubSeq(s, i, i + Len(d) - 1) = d})

\* The data chunks of the payloads, as the claim has them: "<hex n>", CRLF,
\* the payload and CRLF for a payload of n > 0 bytes, nothing for an empty one.
RECURSIVE DataChunks(_)
DataChunks(payloads) ==
    IF payloads = <<>> THEN <<>>
    ELSE (IF Head(payloads) = <<>> THEN <<>>
          ELSE FormatHex(Len(Head(payloads))) \o crlf \o Head(payloads) \o crlf)
         \o DataChunks(Tail(payloads))

\* C1: once the finish of a response with a final status is over, on a
\* transport that takes every write, the transaction has written exactly one
\* status line, whatever writes came before.
C1_OneStatusLine ==
    (FinishOver /\ responseStatus_ >= 200 /\ ~input.writeFails)
        => Count(written, Str_HTTP11 \o <<" ">>) = 1

\* C5: once the finish of a chunked response is over, on a transport that
\* takes every write, what the transaction has written is the head, a data chunk for each payload that was not empty,
\* and the terminating "0" CRLF with the trailers and the empty line, once.
C5_ChunkedBody ==
    (FinishOver /\ responseChunked_ /\ ~input.writeFails) =>
        written = write_status(responseStatus_) \o write_headers(responseHeaders_)
                  \o DataChunks(userWrites)
                  \o <<"0">> \o crlf \o write_headers(responseTrailers_)

\* ---------------------------------------------------------- claims, server

\* The Connection header of headers is "close" in whatever case.
ConnectionCloses(headers) ==
    LET i == HeadersFind(headers, Str_Connection)
    IN  i # 0 /\ [k \in 1..Len(headers[i][2]) |-> ToUpper(headers[i][2][k])]
                 = <<"C", "L", "O", "S", "E">>

\* The transaction that was released last had been finished.
ReleasedFinished == phase \in {"posted", "closed"} /\ txIndex >= 1 /\ prior.finished

\* C6: the keep-alive decision for a finished transaction is false when the
\* status is 101 or the Connection header of the request or of the response
\* is "close" in whatever case, and true in every other case.
C6_KeepAliveDecision ==
    ReleasedFinished =>
        prior.keep = ~(\/ responseStatus_ = 101
                       \/ ConnectionCloses(requestHeaders_)
                       \/ ConnectionCloses(responseHeaders_))

\* C7: when a read of the body has returned an error to the handler of the
\* transaction that was released last, the connection is closed: no
\* create_transaction is posted and no further transaction is constructed.
C7_BodyErrorCloses ==
    (prior.readFailed /\ ~prior.headFailed) => phase = "closed"

\* C8: when the null read of create_transaction fails, no handler is invoked
\* (nothing is read, set or written on the transaction), keepalive is false
\* before the transaction is released and after, and once it is released the
\* connection is closed: no further transaction is constructed.
C8_FailedHeadCloses ==
    /\ (lastRead.null /\ lastRead.err # "ok") =>
          /\ phase \in {"failed", "closed"} /\ ~keepalive
          /\ responseStatus_ = 0 /\ delivered = <<>> /\ written = <<>>
    /\ prior.headFailed =>
          phase = "closed" /\ lastRead.null /\ lastRead.err # "ok"

\* The transaction of a head that does not parse was released, with a second
\* request still on the transport, and the connection is closed.
C8_Witness ==
    /\ input.kind = "badhead" /\ input.rest # <<>>
    /\ lastRead.null /\ lastRead.err \notin {"ok", "eof"}
    /\ prior.headFailed /\ phase = "closed" /\ txIndex = 1

\* --------------------------------------------------- claims, finish errors

\* finish has returned, or the handler of async_finish has run.
FinishReported == fin.mode = "sync" \/ (fin.mode = "async" /\ fin.handled >= 1)

\* C11: when the drain of the unread body or the terminating write has
\* failed, what finish reports, or what the handler of async_finish is given,
\* is that failure and not success.
C11_FinishReportsFailure ==
    (FinishReported /\ (fin.drainError # "ok" \/ fin.writeError # "ok"))
        => fin.result \in {fin.drainError, fin.writeError} \ {"ok"}

\* C12: the handler of async_finish is run once and no more, and it has run
\* exactly when the drain (if there is one) and the terminating write have
\* both completed, in whatever order and with whatever outcome.
C12_HandlerOnceAfterBoth ==
    fin.mode = "async" =>
        /\ fin.handled <= 1
        /\ fin.handled = 1 <=> (fin.drain # "pending" /\ fin.write = "done")

\* The handler of async_finish has run after a drain that had to read from
\* the transport and a write, of which one failed.
C12_Witness ==
    /\ fin.mode = "async" /\ fin.handled = 1 /\ responseStatus_ >= 200
    /\ fin.drain = "done" /\ "handler" \in Before(Len(finishLog) + 1)
    /\ input.kind \in {"length", "bad"} /\ delivered = <<>>
    /\ (fin.drainError # "ok" \/ fin.writeError # "ok")

\* -------------------------------------------------------- claims, pipeline

IssuedChunk(id) ==
    IF \E i \in 1..Len(writeLog) : writeLog[i].id = id
    THEN writeLog[CHOOSE i \in 1..Len(writeLog) : writeLog[i].id = id].chunk
    ELSE writeOps[CHOOSE i \in 1..Len(writeOps) : writeOps[i].id = id].whole

\* The chunks of the writes issued up to the id-th, one after the other.
RECURSIVE IssuedChunks(_)
IssuedChunks(id) == IF id = 0 THEN <<>> ELSE IssuedChunks(id - 1) \o IssuedChunk(id)

\* C14: the bytes of writes issued concurrently do not interleave on the
\* wire: what is on the transport is a prefix of the chunks in the order of
\* issue; and the completion handlers run in the order of issue.
C14_WritesDoNotInterleave ==
    /\ IsPrefix(written, IssuedChunks(Len(userWrites)))
    /\ \A i, j \in 1..Len(writeLog) : i < j => writeLog[i].id < writeLog[j].id

\* ---------------------------------------------------- claims, write reports

\* C15: write_some(buffers, error) and async_write_some are interchangeable:
\* a blocking and an asynchronous write of as many payload bytes, begun with
\* the same responseBytes_ and with the same outcome on the transport, report
\* the same count and leave the same responseBytes_; and responseBytes_ grows
\* by the count reported, which is 0 for a write that failed before any byte
\* of its payload was on the transport.
C15_WritesInterchangeable ==
    /\ \A i, j \in 1..Len(writeLog) :
          (/\ writeLog[i].mode = "sync" /\ writeLog[j].mode = "async"
           /\ writeLog[i].nBytes = writeLog[j].nBytes
           /\ writeLog[i].before = writeLog[j].before
           /\ writeLog[i].error = writeLog[j].error)
          => (writeLog[i].n = writeLog[j].n /\ writeLog[i].after = writeLog[j].after)
    /\ \A i \in 1..Len(writeLog) :
          /\ writeLog[i].after = writeLog[i].before + writeLog[i].n
          /\ writeLog[i].n = IF writeLog[i].error = "ok" THEN writeLog[i].nBytes ELSE 0

\* -------------------------------------------------------- claims, trailers

\* The connection carries the request first, then input.rest.
Carries(request) == input.bytes = request.bytes \o input.rest

\* C16: once a read has reported eof on a chunked request with trailers,
\* requestChunksPending_ is false and every trailer is in requestHeaders_: a
\* trailer of a new name as a header of its own, a trailer whose name is, in
\* whatever case, that of a header of the head appended to that header's value
\* after ", ".
C16_TrailersMerged ==
    (lastRead.err = "eof" /\ input.kind = "chunked") =>
        /\ ~requestChunksPending_
        /\ Carries(Req_ChunkedTrailer) =>
              /\ HeadersGet(requestHeaders_, <<"X", "-", "T", "a", "g">>) = <<"v">>
              /\ Len(requestHeaders_) = 2
        /\ Carries(Req_ChunkedTrailerMerge) =>
              /\ HeadersGet(requestHeaders_, <<"X", "-", "T", "a", "g">>)
                    = <<"u", ",", " ", "v">>
              /\ HeadersGet(requestHeaders_, <<"X", "-", "E", "n", "d">>) = <<"w">>
              /\ Len(requestHeaders_) = 3

\* A read has reported eof on the request whose trailer adds to a header of the
\* head, after the body was delivered.
C16_Witness ==
    /\ lastRead.err = "eof" /\ Carries(Req_ChunkedTrailerMerge)
    /\ delivered = input.body /\ ~requestChunksPending_
    /\ HeadersGet(requestHeaders_, <<"x", "-", "t", "a", "g">>) = <<"u", ",", " ", "v">>

\* --------------------------------------------------------- claims, framing

\* The length of the first chunk of the request the connection carries.
FirstChunk ==
    CASE Carries(Req_Chunked) -> 2
      [] Carries(Req_ChunkedTrailer) \/ Carries(Req_ChunkedTrailerMerge) -> 1
      [] OTHER -> 3

\* C17: on a request with Transfer-Encoding: chunked the parse of the head,
\* before the handler reads, has succeeded, with requestChunksPending_ set and requestBytes_ the length of
\* the first chunk, whether there is no Content-Length, one that is a number or
\* one that is none.
C17_TransferEncodingOverrides ==
    (lastRead.null /\ readOp = NoOp /\ input.kind \in {"chunked", "overridden"}) =>
        /\ lastRead.err = "ok"
        /\ requestChunksPending_ /\ requestBytes_ = FirstChunk

\* The response may have a body: its status is not 1xx, 204 or 304 and the
\* request is no HEAD.
MayHaveBody ==
    /\ responseStatus_ >= 200 /\ responseStatus_ # 204 /\ responseStatus_ # 304
    /\ requestMethod_ # <<"H", "E", "A", "D">>

\* This step is the first flush of the response: nothing was written or
\* queued, and now something is.
FirstFlush ==
    /\ written = <<>> /\ writeOps = <<>>
    /\ written' # <<>> \/ writeOps' # <<>>

\* What the first flush puts out, after this step.
Flushed == IF writeOps' # <<>> THEN writeOps'[1].whole ELSE written'

\* The framing after this step is the one the claim derives from the headers
\* before it, and on a working transport the head put out carries the headers
\* after it.
FramedAsClaimed ==
    LET te == HeadersGet(responseHeaders_, <<"t", "r", "a", "n", "s", "f", "e", "r", "-", "e", "n", "c", "o", "d", "i", "n", "g">>)
        cl == HeadersGet(responseHeaders_, <<"c", "o", "n", "t", "e", "n", "t", "-", "l", "e", "n", "g", "t", "h">>)
        te2 == HeadersGet(responseHeaders_', <<"t", "r", "a", "n", "s", "f", "e", "r", "-", "e", "n", "c", "o", "d", "i", "n", "g">>)
        cl2 == HeadersGet(responseHeaders_', <<"c", "o", "n", "t", "e", "n", "t", "-", "l", "e", "n", "g", "t", "h">>)
    IN  /\ IF te # <<>> /\ te # <<"i", "d", "e", "n", "t", "i", "t", "y">>
           THEN responseChunked_' /\ cl2 = <<>> /\ te2 = te
           ELSE IF cl = <<>>
           THEN responseChunked_' /\ te2 = <<"c", "h", "u", "n", "k", "e", "d">>
           ELSE ~responseChunked_' /\ cl2 = cl /\ te2 = te
        /\ input.writeFails
           \/ IsPrefix(write_status(responseStatus_) \o write_headers(responseHeaders_'), Flushed)

\* On a response that is not chunked every write puts out its payload, after
\* the head or alone, and nothing else.
NoChunkFraming ==
    (MayHaveBody /\ ~responseChunked_) =>
        \A i \in 1..Len(writeLog) :
            writeLog[i].chunk \in
                {userWrites[writeLog[i].id],
                 write_status(responseStatus_) \o write_headers(responseHeaders_)
                    \o userWrites[writeLog[i].id]}

\* C18: the first flush of a response that may have a body decides the
\* framing: a Transfer-Encoding other than identity makes it chunked and
\* Content-Length is not among the headers put out; otherwise without
\* Content-Length it is chunked and Transfer-Encoding: chunked is put out;
\* otherwise it is not chunked, Content-Length is as given, and no write adds
\* chunk framing.
C18_ResponseFraming ==
    /\ [][(FirstFlush /\ MayHaveBody) => FramedAsClaimed]_vars
    /\ []NoChunkFraming

\* Two writes on a response with Content-Length: 2 are on the transport: the
\* head once and the two payloads.
C18_Witness ==
    /\ MayHaveBody /\ ~responseChunked_ /\ ~input.writeFails /\ writeOps = <<>>
    /\ userWrites = << <<"a">>, <<"a">> >> /\ Len(writeLog) = 2
    /\ HeadersGet(responseHeaders_, Str_Content_Length) = <<"2">>
    /\ written = write_status(responseStatus_) \o write_headers(responseHeaders_)
                  \o <<"a", "a">>

\* ---- Responses that cannot have a body ----

\* A GET and a HEAD request on working transports.
BodylessInputs == <<Input(Req_Get, <<>>), Input(Req_Head, <<>>)>>

InitBodyless == InitWith(BodylessInputs)

\* The statuses a handler answers with: 200 to HEAD, and to GET the statuses
\* that cannot have a body.
BodylessStatus == IF requestMethod_ = Str_HEAD THEN {200} ELSE {100, 204, 304}

\* The headers it sets, and a trailer.
BodylessHeaders ==
    {<<>>,
     <<(<<Str_Content_Length, <<"2">>>>)>>,
     <<(<<Str_Transfer_Encoding, Str_chunked>>)>>}

BodylessTrailers == <<(<<Str_X_Tag, <<"v">>>>)>>

\* A handler that sets a response without body, writes and finishes.
NextBodyless ==
    \/ CreateTransaction
    \/ NullReadDone
    \/ \E status \in BodylessStatus, headers \in BodylessHeaders :
         SetResponse(status, headers, BodylessTrailers)
    \/ \E payload \in Payloads : WriteSome(payload)
    \/ \E payload \in Payloads : AsyncWriteSome(payload)
    \/ AsyncWriteDone
    \/ Finish
    \/ AsyncFinish

SpecBodyless == InitBodyless /\ [][NextBodyless]_vars

\* The response has a status and cannot have a body.
Bodyless == responseStatus_ >= 100 /\ ~MayHaveBody

\* The head of the response as the status and headers now give it.
ResponseHead == write_status(responseStatus_) \o write_headers(responseHeaders_)

\* This step hands bytes to the transport or queues them: a write or the
\* terminating write of a finish.
WriteStep ==
    \/ Len(writeOps') > Len(writeOps)
    \/ writeOps' = writeOps /\ written' # written /\ IsPrefix(written, written')

\* The bytes this step hands over and the payload they are for.
Emitted ==
    IF Len(writeOps') > Len(writeOps) THEN writeOps'[Len(writeOps')].whole
    ELSE SubSeq(written', Len(written) + 1, Len(written'))

EmittedPayload ==
    IF Len(userWrites') > Len(userWrites) THEN userWrites'[Len(userWrites')] ELSE <<>>

\* A bodyless response is never chunked.
BodylessNeverChunked == Bodyless => ~responseChunked_

\* No step of a bodyless response changes its Transfer-Encoding header.
BodylessKeepsEncoding ==
    (Bodyless /\ responseStatus_' = responseStatus_) =>
        HeadersGet(responseHeaders_', Str_transfer_encoding)
            = HeadersGet(responseHeaders_, Str_transfer_encoding)

\* Every write of a bodyless response hands over the payload, after the head
\* or alone: no chunk header, no chunk trailer, no terminator.
BodylessWritesPlain ==
    (Bodyless /\ responseStatus_' = responseStatus_ /\ WriteStep) =>
        Emitted \in {EmittedPayload,
                     write_status(responseStatus_) \o write_headers(responseHeaders_')
                        \o EmittedPayload}

\* The response was finished without payload: a final one after writes of
\* nothing, if any, an informational one without writes.
FinishedWithoutPayload ==
    \/ phase = "finished" /\ \A i \in 1..Len(userWrites) : userWrites[i] = <<>>
    \/ /\ phase = "handler" /\ fin.mode # "none" /\ responseStatus_ < 200
       /\ userWrites = <<>>

\* A finished bodyless response without payload is its head and nothing else
\* (after the informational responses of the transaction, if any).
BodylessExact ==
    (Bodyless /\ FinishedWithoutPayload) =>
        \/ written = ResponseHead
        \/ /\ responseStatus_ >= 200
           /\ IsPrefix(write_status(100), written)
           /\ Len(written) > Len(ResponseHead)
           /\ SubSeq(written, Len(written) - Len(ResponseHead) + 1, Len(written)) = ResponseHead
           /\ Count(written, write_status(responseStatus_)) = 1

\* C19: a response with a 1xx, 204 or 304 status or to a HEAD request is never
\* chunked, gets no Transfer-Encoding header inserted, and none of its writes,
\* the terminating write of finish included, puts out a chunk header, a chunk
\* trailer or a terminator, so that without payload the response is exactly
\* the status line, the headers and one blank line.
C19_Bodyless ==
    /\ []BodylessNeverChunked
    /\ [][BodylessKeepsEncoding]_vars
    /\ [][BodylessWritesPlain]_vars
    /\ []BodylessExact

\* ---- Finishing an informational response ----

\* This step is a finish, synchronous or not, of an informational response.
InformationalFinish ==
    /\ phase = "handler" /\ responseStatus_ >= 100 /\ responseStatus_ < 200
    /\ fin.mode = "none" /\ fin'.mode # "none"

\* The step leaves the request as it is and hands what streambuf_ holds back
\* to the stream, in front of what the stream holds.
RequestLeftToRead ==
    /\ requestBytes_' = requestBytes_
    /\ requestChunksPending_' = requestChunksPending_
    /\ streambuf_' = <<>>
    /\ readBuffer_' = streambuf_ \o readBuffer_
    /\ transport' = transport /\ delivered' = delivered

\* The head of the informational response, as the transport carries it.
InformationalHead == write_status(100) \o write_headers(set_date(<<>>))

\* An informational response was finished in this transaction.
AfterInformational ==
    \/ phase = "handler" /\ fin.mode # "none"
    \/ phase = "finished" /\ IsPrefix(InformationalHead, written)

\* What reads hand out is the body, in order, and a read hands out bytes as
\* long as some are left.
BodyStillDelivered ==
    /\ IsPrefix(delivered, input.body)
    /\ (readOp = NoOp /\ lastRead.size > 0 /\ lastRead.before < Len(input.body))
          => lastRead.err = "ok" /\ lastRead.n > 0
    /\ (readOp = NoOp /\ lastRead.size > 0 /\ lastRead.before = Len(input.body))
          => lastRead.err = "eof" /\ lastRead.n = 0

\* The final response is on the transport after the informational one.
FinalHeadEmitted ==
    IsPrefix(InformationalHead \o write_status(responseStatus_)
                \o write_headers(responseHeaders_), written)

\* C20: a finish with an informational status does not drain the request: it
\* leaves requestBytes_ and requestChunksPending_ alone and puts the bytes of
\* streambuf_ back on the stream; the reads after it hand out the rest of the
\* body in order; and a later finish with a final status puts out the final
\* status line and headers.
C20_InformationalFinish ==
    /\ [][InformationalFinish => RequestLeftToRead]_vars
    /\ [](AfterInformational /\ input.kind \in {"length", "chunked"}
             => BodyStillDelivered)
    /\ [](phase = "finished" /\ IsPrefix(InformationalHead, written)
             /\ fin.result = "ok" /\ ~input.writeFails
             => responseStatus_ >= 200 /\ FinalHeadEmitted)

\* A chunked request was answered 100 and then 200, all of its body was read,
\* and the connection is left at the next request.
C20_Witness ==
    /\ phase = "finished" /\ fin.result = "ok" /\ input.kind = "chunked"
    /\ responseStatus_ = 200 /\ FinalHeadEmitted
    /\ delivered = input.body /\ delivered # <<>>
    /\ readBuffer_ \o transport = input.rest /\ input.rest # <<>>

\* ---- The buffered stream on its own ----

\* Stream::put_back with the bytes added behind what readBuffer_ holds.
Stream_put_back_behind(rb, bytes) == rb \o bytes

\* Stream::put_back: the bytes are inserted at readBuffer_.begin().
Stream_put_back(rb, bytes) == bytes \o rb

\* Stream::read_some(buffers, error) with buffers of size bytes: from
\* readBuffer_ when it is not empty, min(readBuffer_.size(), size) bytes, and
\* from the transport otherwise, which hands out at least one byte and at most
\* size, or eof when it has none. Yields the set of possible
\* [rb, tr, n, data, err].
Stream_read_some(rb, tr, size) ==
    IF rb # <<>>
    THEN {[rb |-> From(rb, n + 1), tr |-> tr, n |-> n, data |-> SubSeq(rb, 1, n),
           err |-> "ok"] : n \in {Smaller(Len(rb), size)}}
    ELSE IF size = 0 THEN {[rb |-> rb, tr |-> tr, n |-> 0, data |-> <<>>, err |-> "ok"]}
    ELSE IF tr = <<>> THEN {[rb |-> rb, tr |-> tr, n |-> 0, data |-> <<>>, err |-> "eof"]}
    ELSE {[rb |-> rb, tr |-> From(tr, n + 1), n |-> n, data |-> SubSeq(tr, 1, n),
           err |-> "ok"] : n \in 1..Smaller(Len(tr), size)}

\* A completion handler that is called within async_read_some.
InvokedInCaller == FALSE

\* Stream::async_read_some hands the completion handler of a read served from
\* readBuffer_ to get_io_service().post.
InvokedThroughExecutor == TRUE

\* What a read handed to its caller, recorded: delivered holds the bytes the
\* caller has read and not put back.
StreamReadOutcome(mode, size, n, data, err) ==
    /\ delivered' = delivered \o data
    /\ lastRead' = [mode |-> mode, size |-> size, err |-> err, n |-> n,
                    before |-> Len(delivered), afterFailure |-> FALSE, null |-> FALSE]
    /\ UNCHANGED readFailed

\* The caller puts back the last k bytes it has read.
StreamPutBack(k) ==
    /\ readOp = NoOp /\ k <= Len(delivered)
    /\ readBuffer_' = Stream_put_back(readBuffer_,
                                       SubSeq(delivered, Len(delivered) - k + 1, Len(delivered)))
    /\ delivered' = SubSeq(delivered, 1, Len(delivered) - k)
    /\ UNCHANGED <<transport, written, requestVars, responseVars, phase, keepalive,
                   readOp, writeOps, fin, input, txIndex, lastRead, readFailed,
                   writeObs, finishLog, prior>>
    /\ UNCHANGED serverVars

\* read_some(buffers, error) on the stream.
StreamReadSome(size) ==
    /\ readOp = NoOp
    /\ \E r \in Stream_read_some(readBuffer_, transport, size) :
         /\ readBuffer_' = r.rb /\ transport' = r.tr
         /\ StreamReadOutcome("sync", size, r.n, r.data, r.err)
    /\ UNCHANGED <<written, requestVars, responseVars, phase, keepalive, readOp,
                   writeOps, fin, input, txIndex, writeObs, finishLog, prior>>
    /\ UNCHANGED serverVars

\* async_read_some(buffers, handler) on the stream: with bytes in readBuffer_
\* they are taken at once by read_some and the handler is posted; otherwise
\* the read of the transport is in flight.
StreamAsyncReadSome(size) ==
    /\ readOp = NoOp
    /\ IF readBuffer_ # <<>>
       THEN \E r \in Stream_read_some(readBuffer_, transport, size) :
              /\ readBuffer_' = r.rb /\ transport' = r.tr
              /\ IF InvokedThroughExecutor
                 THEN /\ readOp' = [kind |-> "posted", size |-> size, n |-> r.n,
                                     taken |-> r.data, err |-> r.err]
                      /\ UNCHANGED readObs
                 ELSE /\ readOp' = NoOp
                      /\ StreamReadOutcome("async", size, r.n, r.data, r.err)
       ELSE /\ readOp' = [kind |-> "stream", size |-> size, n |-> 0, taken |-> <<>>,
                           err |-> "ok"]
            /\ UNCHANGED <<streamVars, readObs>>
    /\ UNCHANGED <<written, requestVars, responseVars, phase, keepalive, writeOps,
                   fin, input, txIndex, writeObs, finishLog, prior>>
    /\ UNCHANGED serverVars

\* The completion handler of async_read_some runs: the posted one with what
\* was taken, the one of the transport's read with what the transport hands
\* out.
StreamAsyncReadDone ==
    /\ readOp.kind \in {"posted", "stream"}
    /\ IF readOp.kind = "posted"
       THEN /\ StreamReadOutcome("async", readOp.size, readOp.n, readOp.taken, readOp.err)
            /\ UNCHANGED streamVars
       ELSE \E r \in Stream_read_some(<<>>, transport, readOp.size) :
              /\ transport' = r.tr /\ UNCHANGED readBuffer_
              /\ StreamReadOutcome("async", readOp.size, r.n, r.data, r.err)
    /\ readOp' = NoOp
    /\ UNCHANGED <<written, requestVars, responseVars, phase, keepalive, writeOps,
                   fin, input, txIndex, writeObs, finishLog, prior>>
    /\ UNCHANGED serverVars

\* How many bytes the caller puts back at once, at most.
MaxPutBack == 2

\* How many bytes the connection carries.
StreamLength == 8

\* A stream that carries the first bytes of a request.
InitStream ==
    InitWith(<<[Input(Req_Get, <<>>) EXCEPT !.bytes = SubSeq(@, 1, StreamLength)]>>)

NextStream ==
    \/ \E k \in 1..MaxPutBack : StreamPutBack(k)
    \/ \E size \in 0..MaxBuffer : StreamReadSome(size)
    \/ \E size \in 0..MaxBuffer : StreamAsyncReadSome(size)
    \/ StreamAsyncReadDone

SpecStream == InitStream /\ [][NextStream]_vars

\* The executor runs what is posted to it and the transport completes its
\* reads.
SpecStreamFair == SpecStream /\ WF_vars(StreamAsyncReadDone)

\* With no read in flight, what the caller holds, what was put back and what
\* the transport still has are the bytes of the connection, in order.
StreamConserved ==
    readOp = NoOp => delivered \o readBuffer_ \o transport = input.bytes

\* A read hands out no more than its buffer takes, and bytes of the transport
\* only when nothing is put back.
ReadsPutBackFirst ==
    lastRead' # lastRead =>
        /\ lastRead'.n <= lastRead'.size
        /\ transport' # transport => readBuffer_ = <<>>
        /\ (readBuffer_ # <<>> /\ readOp = NoOp) =>
              /\ lastRead'.n = Smaller(Len(readBuffer_), lastRead'.size)
              /\ delivered' = delivered \o SubSeq(readBuffer_, 1, lastRead'.n)

\* C21: after any put_back and read_some calls on the stream the reads hand
\* out the bytes last put back first, in their order, then those put back
\* before, and bytes of the transport only when the putback buffer is empty; a
\* read hands out no more than the buffer size, and no byte put back is
\* dropped or handed out twice.
C21_PutBackOrder == []StreamConserved /\ [][ReadsPutBackFirst]_vars

\* Bytes were put back in two calls and a read has handed out the first of
\* them, the others are still put back.
C21_Witness ==
    /\ readOp = NoOp /\ lastRead # NoRead /\ lastRead.mode = "sync" /\ lastRead.n = 1
    /\ lastRead.before + 1 = Len(delivered)
    /\ Len(readBuffer_) > MaxPutBack /\ transport # <<>>

\* The handler of an asynchronous read runs in a step of its own, after the
\* call, with the count and bytes taken from readBuffer_ at the call.
HandlerRunsLater ==
    /\ (lastRead' # lastRead /\ lastRead'.mode = "async") =>
          /\ readOp # NoOp /\ readOp' = NoOp
          /\ readOp.kind = "posted" =>
                /\ lastRead'.n = readOp.n /\ lastRead'.err = "ok"
                /\ delivered' = delivered \o readOp.taken
                /\ UNCHANGED streamVars
    /\ (readOp = NoOp /\ readOp' # NoOp /\ readBuffer_ # <<>>) =>
          /\ readOp'.kind = "posted"
          /\ readOp'.n = Smaller(Len(readBuffer_), readOp'.size)
          /\ readOp'.taken = SubSeq(readBuffer_, 1, readOp'.n)
          /\ readBuffer_' = From(readBuffer_, readOp'.n + 1)
          /\ UNCHANGED readObs

\* C22: an async_read_some on the stream that is served from the putback
\* buffer does not call its handler within the call: the handler runs later,
\* once, with the count of bytes taken from the putback buffer.
C22_HandlerPosted ==
    /\ [][HandlerRunsLater]_vars
    /\ (readOp # NoOp /\ readOp.kind = "posted") ~> (readOp = NoOp)

\* The posted handler of a read of two bytes from the putback buffer has run.
C22_Witness ==
    /\ readOp = NoOp /\ lastRead # NoRead /\ lastRead.mode = "async" /\ lastRead.n = 2
    /\ lastRead.before + 2 = Len(delivered) /\ readBuffer_ # <<>>
    /\ Len(delivered) + Len(readBuffer_) + Len(transport) = Len(input.bytes)

\* ---- The server: accept loop, handlers and dispatch ----

transactionVars ==
    <<streamVars, written, requestVars, responseVars, phase, keepalive, readOp,
      writeOps, fin, input, txIndex, readObs, writeObs, finishLog, prior>>

\* listen(endpoint): the acceptor is bound and accept(acceptor) called.
Listen ==
    /\ acceptor.state = "unbound"
    /\ acceptor' = [acceptor EXCEPT !.state = "accepting"]
    /\ UNCHANGED <<transactionVars, handlers_, dispatched>>

\* How many connections the acceptor accepts.
MaxConnections == 2

\* The handler accept() gave to connect_transport runs with error: a
\* cancelled accept ends with operation_aborted and no other does. Without
\* error create_transaction is called for the transport; the connection the
\* model follows is the first.
AcceptDone(error) ==
    /\ acceptor.state = "accepting"
    /\ acceptor.cancelled <=> error = "operation_aborted"
    /\ error = "ok" => acceptor.accepted < MaxConnections
    /\ acceptor' = [state |-> accept_next(error),
                    accepted |-> acceptor.accepted + (IF error = "ok" THEN 1 ELSE 0),
                    error |-> error, cancelled |-> FALSE]
    /\ IF error = "ok" /\ phase = "unconnected"
       THEN ConstructTransaction
       ELSE UNCHANGED <<transactionVars, handlers_, dispatched>>

\* strand_.dispatch([=, &acceptor]() { this_->accept(acceptor); }).
Accept ==
    /\ acceptor.state = "rearm"
    /\ acceptor' = [acceptor EXCEPT !.state = "accepting"]
    /\ UNCHANGED <<transactionVars, handlers_, dispatched>>

\* destroy(): acceptor.cancel(), which ends an accept that is pending.
Destroy ==
    /\ acceptor.state = "accepting" /\ ~acceptor.cancelled
    /\ acceptor' = [acceptor EXCEPT !.cancelled = TRUE]
    /\ UNCHANGED <<transactionVars, handlers_, dispatched>>

\* set_handler(path, handler); "" is the empty handler.
SetHandler(path, handler) ==
    /\ handlers_' = set_handler(handlers_, path, handler)
    /\ handlers_' # handlers_
    /\ UNCHANGED <<transactionVars, dispatched, acceptor>>

\* Requests for the path /x: with a query and a fragment, and percent-encoded.
Req_PathQuery ==
    [bytes |->
           Line(<<"G", "E", "T", " ", "/", "x", "?", "y", "=", "1", "#", "z", " ",
                  "H", "T", "T", "P", "/", "1", ".", "1">>)
        \o crlf,
     body |-> <<>>, kind |-> "none"]

Req_PathEncoded ==
    [bytes |->
           Line(<<"G", "E", "T", " ", "/", "%", "7", "8", " ",
                  "H", "T", "T", "P", "/", "1", ".", "1">>)
        \o crlf,
     body |-> <<>>, kind |-> "none"]

\* A request whose resource is no path.
Req_Star ==
    [bytes |->
           Line(<<"O", "P", "T", "I", "O", "N", "S", " ", "*", " ",
                  "H", "T", "T", "P", "/", "1", ".", "1">>)
        \o crlf,
     body |-> <<>>, kind |-> "none"]

ListenInputs ==
    <<Input(Req_Get, <<>>), Input(Req_PathQuery, <<>>), Input(Req_PathEncoded, <<>>),
      Input(Req_Star, <<>>)>>

\* The paths handlers are set for and the handlers ("" is the empty one).
HandlerPaths == {<<>>, <<"/">>, <<"/", "x">>}
Handlers == {"", "h1", "h2"}

InitListen ==
    /\ InitFields(ListenInputs)
    /\ phase = "unconnected" /\ acceptor = Unbound

NextListen ==
    \/ Listen
    \/ \E error \in {"ok", "operation_aborted", "system", "misc"} : AcceptDone(error)
    \/ Accept
    \/ Destroy
    \/ \E path \in HandlerPaths, handler \in Handlers : SetHandler(path, handler)
    \/ NullReadDone

SpecListen == InitListen /\ [][NextListen]_vars

\* The strand runs what is dispatched on it.
SpecListenFair == SpecListen /\ WF_vars(Accept)

\* The step is dispatch_transaction.
Dispatch == phase = "parse" /\ phase' = "handler"

\* The path of the request the step has parsed.
DispatchedPath == request_path(requestResource_')

\* C23: for every dispatched transaction one handler is invoked: the one set
\* for the path of the request if there is one, otherwise the one set for the
\* empty path; whatever set_handler calls came before (setting, replacing or
\* removing the handler of any path), dispatch finds a handler to invoke.
C23_DispatchFindsHandler ==
    /\ [][Dispatch =>
            /\ DispatchedPath \in DOMAIN handlers_ \/ <<>> \in DOMAIN handlers_
            /\ dispatched' = IF DispatchedPath \in DOMAIN handlers_
                              THEN handlers_[DispatchedPath] ELSE handlers_[<<>>]]_vars
    /\ [][phase = "handler" => dispatched' = dispatched]_vars

\* An accept handler has run to its end.
AcceptOver == acceptor.state = "accepting" /\ acceptor'.state # "accepting"

\* C25: the accept loop issues accept on the acceptor again after every
\* connection and after every error that is neither operation_aborted nor of
\* the system category; after operation_aborted or an error of the system
\* category it issues no accept on the acceptor any more.
C25_AcceptLoop ==
    /\ [][AcceptOver =>
            acceptor'.state = IF acceptor'.error \in {"operation_aborted", "system"}
                              THEN "stopped" ELSE "rearm"]_vars
    /\ [][acceptor.state = "stopped" => acceptor'.state = "stopped"]_vars
    /\ (acceptor.state = "rearm") ~> (acceptor.state = "accepting")

\* After a connection and an error of another category an accept is pending.
C25_Witness ==
    /\ acceptor.state = "accepting" /\ acceptor.accepted = 1 /\ acceptor.error = "misc"

\* ---- The keep-alive loop ----

\* The executor runs the create_transaction a deleter posted.
SpecFair == Spec /\ WF_vars(CreateTransaction)

\* The step is the deleter of the transaction.
Released == phase \in {"failed", "handler", "finished"} /\ phase' \in {"posted", "closed"}

\* C24: when a transaction is released either one new transaction is started
\* on the transport (keepalive true) or none is (keepalive false); in the
\* second case nothing refers to the transport any more, it is dropped and
\* its socket shut down and closed.
C24_ReleaseStartsOneOrDrops ==
    /\ [][Released => phase' = IF keepalive' THEN "posted" ELSE "closed"]_vars
    /\ [][phase = "closed" => phase' = "closed" /\ txIndex' = txIndex]_vars
    /\ [][(phase = "posted" /\ phase' # "posted")
            => phase' = "parse" /\ txIndex' = txIndex + 1]_vars
    /\ (phase = "posted" /\ txIndex < MaxTransactions) ~> (phase = "parse")

\* The first transaction was released with keepalive true, the second, started
\* for it, with keepalive false: the transport is dropped.
C24_Witness ==
    /\ phase = "closed" /\ txIndex = 2 /\ ~keepalive /\ prior.finished

\* C26: a request with the request line "FOO / HTTP/1.1" makes the transaction
\* fail with invalid_request_line: no handler is invoked and the connection
\* is closed.
C26_UnknownMethodRejected ==
    (input.kind = "unknown_method" /\ phase \notin {"posted", "parse"}) =>
        /\ lastRead.err = "invalid_request_line"
        /\ dispatched = NotDispatched
        /\ phase \in {"failed", "closed"}

\* ---- An informational response and the final one ----

InitInformational == InitWith(<<Input(Req_Get, <<>>)>>)

\* A handler that answers 100 and then 200, or 200 at once, with or without
\* Content-Length, writes and finishes.
NextInformational ==
    \/ CreateTransaction
    \/ NullReadDone
    \/ \E status \in {100, 200},
          headers \in {<<>>, <<(<<Str_Content_Length, <<"2">>>>)>>} :
         SetResponse(status, headers, <<>>)
    \/ \E payload \in Payloads : WriteSome(payload)
    \/ Finish
    \/ AsyncFinish
    \/ AsyncWriteDone

SpecInformational == InitInformational /\ [][NextInformational]_vars

\* The transaction has flushed: bytes are on the transport or queued for it.
HasFlushed == written # <<>> \/ writeOps # <<>>

\* The final response has flushed.
FinalHasFlushed ==
    /\ responseStatus_ >= 200
    /\ \/ Count(written, write_status(responseStatus_)) > 0
       \/ \E i \in 1..Len(writeOps) : IsPrefix(write_status(responseStatus_), writeOps[i].whole)

\* C27 as stated: responseChunked_ is decided at the first flush of the
\* transaction and changes at no later write_some or finish, an informational
\* finish followed by a final response included.
C27_ChunkedNeverChanges ==
    [][(HasFlushed /\ txIndex' = txIndex) => responseChunked_' = responseChunked_]_vars

\* C27 as the code has it: responseChunked_ never goes back to false, it is
\* set only by a flush made with responseBytes_ = 0 for a response that may
\* have a body, and it changes at no write or finish after the first flush of
\* the final response; the flush of an informational response leaves it
\* false, to be decided by the first flush of the final response.
C27_ChunkedDecidedPerResponse ==
    /\ [][(responseChunked_ /\ txIndex' = txIndex) => responseChunked_']_vars
    /\ [][(responseChunked_' # responseChunked_ /\ txIndex' = txIndex)
            => /\ responseBytes_ = 0 /\ MayHaveBody
               /\ written' # written \/ Len(writeOps') > Len(writeOps)]_vars
    /\ [][(FinalHasFlushed /\ txIndex' = txIndex)
            => responseChunked_' = responseChunked_]_vars

\* After 100 was finished the final response without Content-Length was
\* written to and finished: it is chunked.
C27_Witness ==
    /\ phase = "finished" /\ responseChunked_ /\ responseStatus_ = 200
    /\ IsPrefix(InformationalHead, written) /\ userWrites # <<>>
    /\ userWrites[Len(userWrites)] # <<>>

\* ---- The bound of streambuf_ ----

\* The request has a head, a chunk header or trailers longer than streambuf_
\* may get.
TooLong == input.kind = "long" \/ input.bytes = Req_LongHead.bytes

\* C28: streambuf_ never holds more than buffer_size() bytes; when the
\* delimiter sought (CRLF CRLF for the head or the trailers, CRLF for a chunk
\* header) is not among that many bytes the load fails, the buffer does not
\* grow, and the error is what the read reports.
C28_BufferBounded ==
    /\ Len(streambuf_) <= buffer_size
    /\ (TooLong /\ readOp = NoOp /\ lastRead.err \notin {"none", "ok"}
          /\ ~lastRead.afterFailure)
          => /\ lastRead.err = "not_found"
             /\ IsPrefix(delivered, input.body)

\* The read that came to the trailers found no end of them in a full
\* streambuf_.
C28_Witness ==
    /\ input.bytes = Req_LongTrailers.bytes /\ lastRead.err = "not_found"
    /\ delivered = input.body /\ Len(streambuf_) = buffer_size

\* ---- Content-Length of a request ----

\* A Content-Length that is a negative number, and one of digits followed by
\* another character, each with three bytes behind the head.
Req_NegativeLength ==
    [bytes |->
           Line(<<"P", "O", "S", "T", " ", "/", "x", " ", "H", "T", "T", "P", "/", "1", ".", "1">>)
        \o Line(<<"C", "o", "n", "t", "e", "n", "t", "-", "L", "e", "n", "g", "t", "h", ":", " ", "-", "5">>)
        \o crlf
        \o <<"a", "b", "c">>,
     body |-> <<>>, kind |-> "badlength"]

Req_LengthJunk ==
    [bytes |->
           Line(<<"P", "O", "S", "T", " ", "/", "x", " ", "H", "T", "T", "P", "/", "1", ".", "1">>)
        \o Line(<<"C", "o", "n", "t", "e", "n", "t", "-", "L", "e", "n", "g", "t", "h", ":", " ", "3", "x">>)
        \o crlf
        \o <<"a", "b", "c">>,
     body |-> <<>>, kind |-> "badlength"]

LengthInputs ==
    <<Input(Req_Length, Req_Get.bytes),
      Input(Req_BadLength, Req_Get.bytes),
      Input(Req_NegativeLength, <<>>),
      Input(Req_LengthJunk, <<>>)>>

InitLength == InitWith(LengthInputs)

SpecLength == InitLength /\ [][NextRead]_vars

\* v is a non-negative decimal integer: digits and nothing else.
IsDecimal(v) == v # <<>> /\ \A i \in 1..Len(v) : IsDigit(v[i])

RECURSIVE DecimalValue(_)
DecimalValue(v) ==
    IF v = <<>> THEN 0
    ELSE 10 * DecimalValue(SubSeq(v, 1, Len(v) - 1)) + DigitValue(v[Len(v)])

\* The null read is over and no read of the body has followed it.
HeadParsed == phase \in {"handler", "failed"} /\ lastRead.null /\ readOp = NoOp

\* C29: when the null read of a request that is not chunked is over, a
\* Content-Length that is digits and nothing else has made requestBytes_ its
\* value and the parse has succeeded; any other Content-Length has made the
\* parse fail with invalid_content_length and requestBytes_ is still 0.
C29_ContentLengthValidated ==
    \A c \in {HeadersFind(requestHeaders_, Str_content_length)} :
        (HeadParsed /\ c # 0 /\ HeadersFind(requestHeaders_, Str_transfer_encoding) = 0)
        => IF IsDecimal(requestHeaders_[c][2])
           THEN /\ lastRead.err = "ok"
                /\ requestBytes_ = DecimalValue(requestHeaders_[c][2])
           ELSE /\ lastRead.err = "invalid_content_length"
                /\ requestBytes_ = 0

\* ---- Request headers ----

\* Headers of one name in three spellings in the head, with and without white
\* space before the value, and a fourth among the trailers.
Req_Duplicates ==
    [bytes |->
           Line(<<"P", "O", "S", "T", " ", "/", " ", "H", "T", "T", "P", "/", "1", ".", "1">>)
        \o Line(<<"T", "r", "a", "n", "s", "f", "e", "r", "-", "E", "n", "c", "o", "d", "i", "n", "g", ":", " ", "c", "h", "u", "n", "k", "e", "d">>)
        \o Line(<<"A", "b", ":", " ", "1">>)
        \o Line(<<"a", "b", ":", " ", " ", "2">>)
        \o Line(<<"a", "B", ":", "4", " ">>)
        \o crlf
        \o Line(<<"1">>)
        \o Line(<<"a">>)
        \o Line(<<"0">>)
        \o Line(<<"A", "B", ":", " ", "5">>)
        \o Line(<<"x", "-", "b", ":", " ", "6", ":", "7">>)
        \o crlf,
     body |-> <<"a">>, kind |-> "chunked"]

\* A trailer line without a colon.
Req_BadTrailer ==
    [bytes |->
           Line(<<"P", "O", "S", "T", " ", "/", "x", " ", "H", "T", "T", "P", "/", "1", ".", "1">>)
        \o Line(<<"T", "r", "a", "n", "s", "f", "e", "r", "-", "E", "n", "c", "o", "d", "i", "n", "g", ":", " ", "c", "h", "u", "n", "k", "e", "d">>)
        \o crlf
        \o Line(<<"1">>)
        \o Line(<<"a">>)
        \o Line(<<"0">>)
        \o Line(<<"X", "-", "T", "a", "g", " ", "v">>)
        \o crlf,
     body |-> <<"a">>, kind |-> "badtrailer"]

HeaderInputs ==
    <<Input(Req_Get, Req_Get.bytes),
      Input(Req_Length, Req_Get.bytes),
      Input(Req_Duplicates, Req_Get.bytes),
      Input(Req_ChunkedTrailerMerge, Req_Get.bytes),
      Input(Req_BadHeader, Req_Get.bytes),
      Input(Req_BadTrailer, <<>>)>>

InitHeaders == InitWith(HeaderInputs)

SpecHeaders == InitHeaders /\ [][NextRead]_vars

\* The lines of b, each up to its CRLF.
RECURSIVE SplitLines(_)
SplitLines(b) ==
    Only({IF n = 0 THEN <<>>
          ELSE <<SubSeq(b, 1, n - 1)>> \o SplitLines(From(b, n + 2))
          : n \in {Find(b, crlf)}})

\* The lines from the k-th up to the first empty one.
RECURSIVE Block(_, _)
Block(lines, k) ==
    IF k > Len(lines) \/ lines[k] = <<>> THEN <<>>
    ELSE <<lines[k]>> \o Block(lines, k + 1)

\* The header lines of the head of the request on the wire, and the lines
\* behind the last chunk of its chunked body.
HeadLinesOf(lines) == Block(lines, 2)
TrailerLinesOf(lines) ==
    Only({IF Z = {} THEN <<>> ELSE Block(lines, Min(Z) + 1)
          : Z \in {{k \in (Len(HeadLinesOf(lines)) + 3)..Len(lines) : lines[k] = <<"0">>}}})

\* The header lines the transaction has parsed without an error: those of the
\* head, and the trailers once the last chunk was passed.
ParsedLines ==
    Only({IF input.kind = "chunked" /\ ~requestChunksPending_
          THEN HeadLinesOf(lines) \o TrailerLinesOf(lines) ELSE HeadLinesOf(lines)
          : lines \in {SplitLines(input.bytes)}})

\* The name and the value of a header line, and a name with its ASCII letters
\* folded to one case.
NameOf(line) == SubSeq(line, 1, Find(line, <<":">>) - 1)
ValueOf(line) == trim_left(From(line, Find(line, <<":">>) + 1))
Fold(name) == [i \in 1..Len(name) |-> ToUpper(name[i])]

\* The values of the lines of the name, in the order of the lines, with ", "
\* between them.
RECURSIVE Joined(_, _)
Joined(lines, name) ==
    IF lines = <<>> THEN <<>>
    ELSE IF Fold(NameOf(lines[1])) # Fold(name) THEN Joined(Tail(lines), name)
    ELSE IF \E i \in 2..Len(lines) : Fold(NameOf(lines[i])) = Fold(name)
    THEN ValueOf(lines[1]) \o <<",", " ">> \o Joined(Tail(lines), name)
    ELSE ValueOf(lines[1])

\* C30: while no read has failed, requestHeaders_ holds one entry for each
\* name among the header lines parsed so far (head and trailers), names that
\* differ only in the case of ASCII letters being one name; the value found
\* under the name in any spelling is the left-trimmed values of its lines joined
\* with ", " in the order of arrival. A head with a line without a colon fails
\* the null read, and such a line among the trailers the read that reaches
\* them, with invalid_request_header.
C30_HeadersCoalesced ==
    /\ (phase = "handler" /\ ~readFailed /\ lastRead # NoRead) =>
          \A lines \in {ParsedLines} :
             /\ \A i \in 1..Len(lines) :
                   \A key \in {NameOf(lines[i]), Fold(NameOf(lines[i]))} :
                       HeadersGet(requestHeaders_, key) = Joined(lines, NameOf(lines[i]))
             /\ Len(requestHeaders_)
                   = Cardinality({Fold(NameOf(lines[i])) : i \in 1..Len(lines)})
    /\ (Carries(Req_BadHeader) /\ lastRead # NoRead)
          => phase = "failed" /\ lastRead.err = "invalid_request_header"
    /\ (Carries(Req_BadTrailer) /\ ~requestChunksPending_ /\ lastRead # NoRead
          /\ ~lastRead.afterFailure)
          => lastRead.err = "invalid_request_header"

\* All header lines and trailers of the request with one name in four
\* spellings are parsed, and the name's value is the four values in order.
C30_Witness ==
    /\ Carries(Req_Duplicates) /\ ~requestChunksPending_ /\ ~readFailed
    /\ HeadersGet(requestHeaders_, <<"a", "b">>)
          = <<"1", ",", " ", "2", ",", " ", "4", " ", ",", " ", "5">>
    /\ HeadersGet(requestHeaders_, <<"X", "-", "B">>) = <<"6", ":", "7">>
    /\ Len(requestHeaders_) = 3

\* ---- The query of a request ----

\* resourceRegex: the part of a resource that begins with "/" between its
\* first "?" and the "#" that follows, empty when "#" comes first or there is
\* no "?".
query_string(resource) ==
    LET I == {i \in 1..Len(resource) : resource[i] \in {"?", "#"}}
        k == IF I = {} THEN 0 ELSE Min(I)
        J == {j \in (k + 1)..Len(resource) : resource[j] = "#"}
        e == IF J = {} THEN Len(resource) + 1 ELSE Min(J)
    IN  IF resource = <<>> \/ resource[1] # "/" \/ k = 0 \/ resource[k] = "#" THEN <<>>
        ELSE SubSeq(resource, k + 1, e - 1)

\* The length of the longest prefix of s with no byte of stop.
RECURSIVE Span(_, _)
Span(s, stop) == IF s = <<>> \/ s[1] \in stop THEN 0 ELSE 1 + Span(Tail(s), stop)

\* Query: std::map<std::string, std::string>, a function of its keys;
\* query[key] = value.
EmptyQuery == [key \in {} |-> <<>>]
QueryPut(query, key, value) ==
    [k \in DOMAIN query \cup {key} |-> IF k = key THEN value ELSE query[k]]

\* The loop of parse_query on the rest s of the string: paramRegex matches,
\* at the front of s, one or more bytes other than "=" and "&", an optional
\* "=", the bytes up to the next "&", and that "&"; the pair is stored when the
\* "=" matched. The loop ends when the regex does not match.
RECURSIVE parse_query_loop(_, _)
parse_query_loop(s, query) ==
    Only({
      IF a = 0 THEN query
      ELSE Only({
        Only({
          parse_query_loop(From(s, e + 1),
                           IF eq THEN QueryPut(query, decode(SubSeq(s, 1, a)),
                                               decode(SubSeq(s, a + 2, a + 1 + v)))
                           ELSE query)
          : e \in {IF eq THEN (IF a + 1 + v < Len(s) THEN a + 2 + v ELSE a + 1 + v)
                   ELSE (IF a < Len(s) THEN a + 1 ELSE a)}})
        : v \in {IF eq THEN Span(From(s, a + 2), {"&"}) ELSE 0}})
      : a \in {Span(s, {"=", "&"})}, eq \in {Span(s, {"=", "&"}) < Len(s)
                                                /\ s[Span(s, {"=", "&"}) + 1] = "="}})

parse_query(s) == parse_query_loop(s, EmptyQuery)

\* request_query() of the transaction whose requestResource_ is resource.
request_query(resource) == parse_query(query_string(resource))

\* The components a handler's clients put into queries, and the queries of
\* up to MaxComponents of them with "&" between.
MaxComponents == 3
QueryComponents ==
    {<<>>, <<"a">>, <<"a", "=">>, <<"a", "=", "b">>, <<"=", "b">>,
     <<"b", "=", "a", "+">>, <<"%", "6", "1", "=", "c">>, <<"b", "=", "%", "6">>}

RECURSIVE QueriesOf(_)
QueriesOf(n) ==
    IF n = 1 THEN QueryComponents
    ELSE QueriesOf(n - 1)
         \cup {q \o <<"&">> \o c : q \in QueriesOf(n - 1), c \in QueryComponents}

QueryRequest(q) ==
    [bytes |-> Line(<<"G", "E", "T", " ", "/", "x", "?">> \o q
                    \o <<" ", "H", "T", "T", "P", "/", "1", ".", "1">>)
               \o crlf,
     body |-> <<>>, kind |-> "query"]

QueryInputs ==
    {Input(QueryRequest(q), <<>>) : q \in QueriesOf(MaxComponents)}
        \cup {Input(Req_PathQuery, <<>>), Input(Req_Get, <<>>)}

InitQuery == InitFieldsOf(QueryInputs) /\ phase = "posted" /\ acceptor = Accepted

NextQuery == CreateTransaction \/ NullReadDone

SpecQuery == InitQuery /\ [][NextQuery]_vars

\* The components of s: the parts between its "&"s, the empty ones too.
RECURSIVE ComponentsOf(_)
ComponentsOf(s) ==
    Only({IF n = Len(s) THEN <<s>>
          ELSE <<SubSeq(s, 1, n)>> \o ComponentsOf(From(s, n + 2))
          : n \in {Span(s, {"&"})}})

\* The pairs of the components that have an "=", a later one replacing an
\* earlier one of the same decoded key.
RECURSIVE PairsOf(_, _)
PairsOf(components, query) ==
    IF components = <<>> THEN query
    ELSE Only({
           PairsOf(Tail(components),
                   IF n = Len(c) THEN query
                   ELSE QueryPut(query, decode(SubSeq(c, 1, n)), decode(From(c, n + 2))))
           : <<c, n>> \in {<<components[1], Span(components[1], {"="})>>}})

\* C31: the query of a parsed request holds, for every "&"-separated
\* component of the query string that has an "=", the decoded key with the
\* decoded value, a later key replacing an equal earlier one, and nothing for
\* a component without "=": also when components are empty, the string begins
\* with "&", or a component begins with "=".
C31_QueryRecorded ==
    (phase = "handler" /\ input.kind = "query") =>
        \A s \in {query_string(requestResource_)} :
            parse_query(s) = PairsOf(ComponentsOf(s), EmptyQuery)

\* ---- The state of the request body ----

\* A handler that reads the body with buffers of any size, empty ones too,
\* with read_some or async_read_some, and at some point finishes with finish
\* or async_finish, which drains what it left.
\* A chunked body of two chunks on a transport that ends behind the first.
Req_ChunkedCut ==
    [bytes |->
           Line(<<"P", "O", "S", "T", " ", "/", "x", " ", "H", "T", "T", "P", "/", "1", ".", "1">>)
        \o Line(<<"T", "r", "a", "n", "s", "f", "e", "r", "-", "E", "n", "c", "o", "d", "i", "n", "g", ":", " ", "c", "h", "u", "n", "k", "e", "d">>)
        \o crlf
        \o Line(<<"2">>)
        \o Line(<<"a", "b">>),
     body |-> <<"a", "b">>, kind |-> "bad"]

BodyInputs ==
    <<Input(Req_Get, Req_Get.bytes),
      Input(Req_ChunkedCut, <<>>),
      Input(Req_Length, Req_Get.bytes),
      Input(Req_Chunked, Req_Get.bytes),
      Input(Req_ChunkedTrailer, Req_Get.bytes),
      Input(Req_ChunkedWithLength, Req_Get.bytes),
      Input(Req_Truncated, <<>>),
      Input(Req_BadChunkLength, Req_Get.bytes),
      Input(Req_BadChunkDelimiter, Req_Get.bytes)>>

InitBody == InitWith(BodyInputs)

NextBody ==
    \/ CreateTransaction
    \/ NullReadDone
    \/ \E n \in 0..MaxBuffer : ReadSome(n)
    \/ \E n \in 0..MaxBuffer : AsyncReadSome(n)
    \/ AsyncReadDone
    \/ SetResponse(200, <<>>, <<>>)
    \/ Finish
    \/ AsyncFinish
    \/ AsyncDiscardDone
    \/ AsyncWriteDone

SpecBody == InitBody /\ [][NextBody]_vars

\* No read of the transaction is under way, and none has failed: not the null
\* read, not a read of the handler, not the drain of finish.
NoReadPending == readOp = NoOp
NoReadFailed == ~readFailed /\ fin.drainError = "ok"

\* C32: while no read is under way and none has failed, a pending chunk has
\* bytes left (requestChunksPending_ implies requestBytes_ > 0), so that
\* requestBytes_ = 0 alone says the request body is at its end; and no call
\* of read_chunk_header has found requestBytes_ other than 0 or
\* requestChunksPending_ false.
C32_PendingChunkHasBytes ==
    /\ (NoReadPending /\ NoReadFailed) => (requestChunksPending_ => requestBytes_ > 0)
    /\ lastRead.err # "assertion_failed" /\ fin.drainError # "assertion_failed"

\* A read has exhausted the first chunk of a chunked body and left the
\* second one pending with its length.
C32_Witness ==
    /\ Carries(Req_Chunked) /\ NoReadPending /\ NoReadFailed
    /\ Len(delivered) = FirstChunk /\ lastRead.err = "ok" /\ lastRead.n > 0
    /\ requestChunksPending_ /\ requestBytes_ > 0

\* ---- Reads with a buffer of no bytes ----

\* A step of a read of the handler with a buffer of no bytes: the whole of
\* read_some, or the issue or the completion of async_read_some.
ZeroRead ==
    \/ ReadSome(0)
    \/ AsyncReadSome(0)
    \/ (readOp.kind = "user" /\ readOp.size = 0 /\ AsyncReadDone)

\* C33: a read with a buffer of no bytes on a transaction whose head is parsed
\* takes nothing from streambuf_, readBuffer_ or the transport, leaves
\* requestBytes_, requestChunksPending_ and the headers as they are, also when
\* requestBytes_ is 0 with a chunk pending, and completes with 0 bytes and no
\* error.
C33_ZeroReadChangesNothing ==
    [][ZeroRead =>
         /\ UNCHANGED <<streambuf_, readBuffer_, transport, requestBytes_,
                        requestChunksPending_, requestHeaders_, delivered>>
         /\ readOp' = NoOp =>
               lastRead'.size = 0 /\ lastRead'.n = 0 /\ lastRead'.err = "ok"]_vars

\* A read with a buffer of no bytes has completed while requestBytes_ is 0 and
\* a chunk is pending.
C33_Witness ==
    /\ phase = "handler" /\ readOp = NoOp
    /\ lastRead.size = 0 /\ ~lastRead.null /\ lastRead.err = "ok"
    /\ requestBytes_ = 0 /\ requestChunksPending_

\* ---- The drain of finish ----

\* The io_service runs the completion of a read of async_discard that is in
\* flight: the transport delivers the bytes asked for or reports an error.
SpecBodyFair == SpecBody /\ WF_vars(AsyncDiscardDone)

\* The drain of finish or async_finish is over, without an error or with one.
Drained ==
    \/ fin.mode = "sync" /\ phase = "finished"
    \/ fin.mode = "async" /\ fin.drain = "done"

\* The drain is over and has reported no error: finish went on to its write,
\* the handler of async_discard was given none.
DrainedWell ==
    \/ /\ fin.mode = "sync" /\ phase = "finished"
       /\ "write" \in {finishLog[i] : i \in 1..Len(finishLog)}
    \/ fin.mode = "async" /\ fin.drain = "done" /\ fin.drainError = "ok"

\* C34: the drain of the request body by finish and async_finish comes to an
\* end: a read of async_discard in flight leads to the drain being over, and
\* a drain that is over has either reported an error of a read or left
\* requestBytes_ = 0 with no chunk pending.
C34_DrainTerminates ==
    /\ [](DrainedWell => requestBytes_ = 0 /\ ~requestChunksPending_)
    /\ (readOp.kind = "discard") ~> (readOp = NoOp /\ Drained)

====
